---- MODULE Spec2Model ----
(***************************************************************************)
(* A model of the renewable-energy preprocessing pipeline and of the       *)
(* state its request handlers share (backend/renewables, backend/routes).  *)
(*                                                                         *)
(* Text that the code inspects character by character (region names,       *)
(* units) is a tuple of one-character strings, so that strip(), lower(),   *)
(* isupper(), len() and substring tests are computed, not assumed.         *)
(* A table cell is a record: Num(n) for a number, Txt for text that does   *)
(* not parse as a number, NaN for a missing value.  OBS_VALUE numbers are  *)
(* held in units of 1/Scale so that linear interpolation stays exact.      *)
(***************************************************************************)
EXTENDS Integers, Sequences, FiniteSets, TLC

VARIABLES
    \* one call of a cleaning function (SpecClean)
    c_kind, c_raw, c_out, c_pc,
    \* one call of merge_datasets on cleaned inputs (SpecMerge)
    m_ren_raw, m_bal_raw, m_ren, m_bal, m_out, m_pc,
    \* the process: whether pycountry imported, add_nuts_codes._mapping_cache
    PYCOUNTRY_AVAILABLE, mapping_cache,
    \* preprocess_all_datasets (Spec): the raw files, the stage reached, the
    \* run's local data frames and statistics, the files of DATA_CLEAN_DIR
    raw_ren, raw_bal, raw_gdp, pc, run, ren_df, bal_df, gdp_df, merged_df,
    stats, error, disk,
    \* history: the runs that raised, the merged file of each completed run,
    \* what get_energy_types last read
    failed_runs, merged_history, served,
    \* one analytics query (SpecQuery): the datasets load_dataset finds, their
    \* rows, the query called and what it returned or raised
    q_available, q_files, q_call, q_out,
    \* data_loader's globals and the lru_cache of load_raw_renewables
    \* (SpecSel), the request each worker thread is serving and the last
    \* response sent
    _current_dataset_id, _current_dataset_ids, _cleaned_dataset,
    load_raw_renewables_cache, w_pc, w_local, w_resp,
    \* calls of the region-code resolver (SpecNuts), and how many times
    \* pycountry was searched for each trimmed name
    n_call, n_in, n_out, n_lookups,
    \* one call of clean_and_normalize_timeseries (SpecNorm)
    t_df, t_strategy, t_out, t_pc,
    \* one analytics query and the figures it returns (SpecAna)
    a_query, a_in, a_out, a_pc,
    \* one call of load_dataset on a file of DATA_RAW_DIR (SpecLoad)
    l_file, l_out, l_pc,
    \* add_nuts_codes run by threads that share its cache (SpecRace)
    k_cache, k_pc, k_local, k_out,
    \* the de-duplication step of merge_datasets on a longer frame (SpecSort)
    d_frame, d_out, d_pc,
    \* the merge of load_raw_renewables on two loaded datasets (SpecJoin)
    j_first, j_second, j_out, j_pc

cleanVars == <<c_kind, c_raw, c_out, c_pc>>
mergeVars == <<m_ren_raw, m_bal_raw, m_ren, m_bal, m_out, m_pc>>
envVars == <<PYCOUNTRY_AVAILABLE, mapping_cache>>
pipeVars == <<raw_ren, raw_bal, raw_gdp, pc, run, ren_df, bal_df, gdp_df,
              merged_df, stats, error, disk, failed_runs, merged_history, served>>
queryVars == <<q_available, q_files, q_call, q_out>>
selVars == <<_current_dataset_id, _current_dataset_ids, _cleaned_dataset,
             load_raw_renewables_cache, w_pc, w_local, w_resp>>
nutsVars == <<n_call, n_in, n_out, n_lookups>>
normVars == <<t_df, t_strategy, t_out, t_pc>>
anaVars == <<a_query, a_in, a_out, a_pc>>
loadVars == <<l_file, l_out, l_pc>>
raceVars == <<k_cache, k_pc, k_local, k_out>>
sortVars == <<d_frame, d_out, d_pc>>
joinVars == <<j_first, j_second, j_out, j_pc>>
vars == <<cleanVars, mergeVars, envVars, pipeVars, queryVars, selVars, nutsVars,
          normVars, anaVars, loadVars, raceVars, sortVars, joinVars>>

-----------------------------------------------------------------------------
(* Text *)

Uppers == <<"A","B","C","D","E","F","G","H","I","J","K","L","M",
            "N","O","P","Q","R","S","T","U","V","W","X","Y","Z">>
Lowers == <<"a","b","c","d","e","f","g","h","i","j","k","l","m",
            "n","o","p","q","r","s","t","u","v","w","x","y","z">>
Whitespace == {" "}

Range(s) == {s[i] : i \in DOMAIN s}

\* str.lower() on one character
LowerChar(c) ==
    IF \E i \in DOMAIN Uppers : Uppers[i] = c
    THEN Lowers[CHOOSE i \in DOMAIN Uppers : Uppers[i] = c]
    ELSE c

\* str.lower()
Lower(s) == [i \in DOMAIN s |-> LowerChar(s[i])]

\* str.isupper(): at least one cased character and no lowercase one
IsUpper(s) ==
    /\ \E i \in DOMAIN s : s[i] \in Range(Uppers)
    /\ \A i \in DOMAIN s : s[i] \notin Range(Lowers)

\* str.strip(): leading and trailing whitespace removed
Strip(s) ==
    LET solid == {i \in DOMAIN s : s[i] \notin Whitespace}
    IN  IF solid = {} THEN <<>>
        ELSE LET lo == CHOOSE i \in solid : \A j \in solid : i <= j
                 hi == CHOOSE i \in solid : \A j \in solid : j <= i
             IN  SubSeq(s, lo, hi)

\* pat in s (substring test)
Contains(s, pat) ==
    \E k \in 0..(Len(s) - Len(pat)) :
        \A i \in 1..Len(pat) : s[k + i] = pat[i]

-----------------------------------------------------------------------------
(* Cells *)

Scale == 60

Num(n) == [t |-> "num", n |-> n]
NaN == [t |-> "nan", n |-> 0]
Txt == [t |-> "txt", n |-> 0]

IsNa(c) == c.t = "nan"

\* pd.to_numeric(..., errors="coerce")
ToNumeric(c) == IF c.t = "num" THEN c ELSE NaN

-----------------------------------------------------------------------------
(* Sequences of rows *)

\* the rows of s at the indices in keep, in their original order
RECURSIVE PickFrom(_, _, _)
PickFrom(s, keep, i) ==
    IF i > Len(s) THEN <<>>
    ELSE (IF i \in keep THEN <<s[i]>> ELSE <<>>) \o PickFrom(s, keep, i + 1)

Pick(s, keep) == PickFrom(s, keep, 1)

\* DataFrame.drop_duplicates(subset=..., keep="first")
DropDuplicates(s, Key(_)) ==
    Pick(s, {i \in DOMAIN s : \A j \in 1..(i - 1) : Key(s[j]) # Key(s[i])})

BoundedSeq(S, n) == UNION {[1..k -> S] : k \in 0..n}

\* df[columns]: the row restricted to the named columns
Project(row, cols) == [f \in (DOMAIN row) \cap cols |-> row[f]]

-----------------------------------------------------------------------------
(* DatasetCleaner: data_preprocessing.py *)

\* exclude_patterns
exclude_patterns ==
    { <<"u","n","i","o","n">>,
      <<"e","u","r","o","p","e","a","n">>,
      <<"c","o","u","n","t","r","i","e","s">>,
      <<"e","u","r","o"," ","a","r","e","a">>,
      <<"e","u","r","o","z","o","n","e">> }

\* mutant of IsAggregated: the match made case-sensitive
IsAggregatedCaseSensitive(geo) ==
    \E pat \in exclude_patterns : Contains(geo, pat)

\* mask = df["geo"].astype(str).str.lower().str.contains('|'.join(exclude_patterns))
IsAggregated(geo) ==
    \E pat \in exclude_patterns : Contains(Lower(geo), pat)

\* geo stripped, TIME_PERIOD and OBS_VALUE coerced to numbers
Coerce(row) ==
    [row EXCEPT !.geo = Strip(row.geo),
                !.TIME_PERIOD = ToNumeric(row.TIME_PERIOD),
                !.OBS_VALUE = ToNumeric(row.OBS_VALUE)]

CoerceAll(rows) == [i \in DOMAIN rows |-> Coerce(rows[i])]

\* df.dropna(subset=["TIME_PERIOD", "OBS_VALUE"])
DropNa(rows) ==
    SelectSeq(rows, LAMBDA r : ~IsNa(r.TIME_PERIOD) /\ ~IsNa(r.OBS_VALUE))

\* df[~mask]
DropAggregated(rows) == SelectSeq(rows, LAMBDA r : ~IsAggregated(r.geo))

Raise(e) == [raised |-> e, df |-> <<>>, rows_removed_aggregated |-> 0]

\* mutant of CleanTail: drop_duplicates with keep='last'
CleanTailKeepLast(rows, dedup_cols) ==
    LET kept == DropNa(rows)
        noagg == DropAggregated(kept)
        out == IF Cardinality(dedup_cols) >= 2
               THEN Pick(noagg, {i \in DOMAIN noagg :
                        \A j \in (i + 1)..Len(noagg) :
                            Project(noagg[j], dedup_cols) # Project(noagg[i], dedup_cols)})
               ELSE noagg
    IN  [raised |-> "none", df |-> out,
         rows_removed_aggregated |-> Len(kept) - Len(noagg)]

\* the common tail of the three cleaning functions: dropna, the aggregate
\* filter, then drop_duplicates on the dedup columns that are present
CleanTail(rows, dedup_cols) ==
    LET kept == DropNa(rows)
        noagg == DropAggregated(kept)
        out == IF Cardinality(dedup_cols) >= 2
               THEN DropDuplicates(noagg, LAMBDA r : Project(r, dedup_cols))
               ELSE noagg
    IN  [raised |-> "none", df |-> out,
         rows_removed_aggregated |-> Len(kept) - Len(noagg)]

\* the columns each cleaning function selects; "freq" and "LAST UPDATE" are
\* columns of the files but not fields of the model's rows
RenColumns ==
    {"freq", "nrg_bal", "unit", "geo", "TIME_PERIOD", "OBS_VALUE", "LAST UPDATE"}
BalColumns ==
    {"freq", "nrg_bal", "siec", "unit", "geo", "TIME_PERIOD", "OBS_VALUE",
     "LAST UPDATE"}
GdpKeepColumns == {"geo", "TIME_PERIOD", "OBS_VALUE", "LAST UPDATE", "unit"}

ProjectAll(rows, cols) == [i \in DOMAIN rows |-> Project(rows[i], cols)]

clean_nrg_ind_ren(file) ==
    IF ~file.exists THEN Raise("FileNotFoundError")
    ELSE IF ~(RenColumns \subseteq file.cols) THEN Raise("KeyError")
    ELSE CleanTail(CoerceAll(ProjectAll(file.rows, RenColumns)),
                   {"geo", "TIME_PERIOD", "nrg_bal", "unit"})

clean_energy_balance(file) ==
    IF ~file.exists THEN Raise("FileNotFoundError")
    ELSE IF ~(BalColumns \subseteq file.cols) THEN Raise("KeyError")
    ELSE CleanTail(CoerceAll(ProjectAll(file.rows, BalColumns)),
                   {"geo", "TIME_PERIOD", "nrg_bal", "siec", "unit"})

clean_gdp_dataset(file) ==
    IF ~file.exists THEN Raise("FileNotFoundError")
    ELSE LET available == file.cols \cap GdpKeepColumns
         IN  IF Cardinality(available) < 3 THEN Raise("ValueError")
             ELSE IF ~({"geo", "TIME_PERIOD", "OBS_VALUE"} \subseteq available)
                  THEN Raise("KeyError")
             ELSE CleanTail(CoerceAll(ProjectAll(file.rows, available)),
                            {"geo", "TIME_PERIOD"} \cup (available \cap {"unit"}))

-----------------------------------------------------------------------------
(* Inputs: region names, units and raw rows the model draws files from *)

G_PT == <<"P","T">>
G_PT_padded == <<"P","T"," ">>
G_Portugal == <<"P","o","r","t","u","g","a","l">>
G_Atlantis == <<"A","t","l","a","n","t","i","s">>
G_UNION == <<"U","N","I","O","N">>
G_Euro_area == <<"E","u","r","o"," ","a","r","e","a">>

U_Terajoule == <<"T","e","r","a","j","o","u","l","e">>
U_GWh == <<"G","W","h">>
U_PC == <<"P","C">>

RenRow(g, y, v, cat) ==
    [geo |-> g, TIME_PERIOD |-> y, OBS_VALUE |-> v, nrg_bal |-> cat, unit |-> U_PC]

BalRow(g, y, v, cat, s, u) ==
    [geo |-> g, TIME_PERIOD |-> y, OBS_VALUE |-> v, nrg_bal |-> cat, siec |-> s,
     unit |-> u]

GdpRow(g, y, v) ==
    [geo |-> g, TIME_PERIOD |-> y, OBS_VALUE |-> v, unit |-> <<"E","U","R">>]

File(cols, rows) == [exists |-> TRUE, cols |-> cols, rows |-> rows]
NoFile == [exists |-> FALSE, cols |-> {}, rows |-> <<>>]

\* raw rows of the cleaning runs: padded and aggregate regions, text in the
\* year or the value, and rows that collide on the dedup columns
CleanRenRows ==
    { RenRow(G_PT, Num(2020), Num(10 * Scale), "REN"),
      RenRow(G_PT_padded, Num(2020), Num(20 * Scale), "REN"),
      RenRow(G_PT, Num(2020), Num(30 * Scale), "REN_ELC"),
      RenRow(G_UNION, Num(2020), Num(40 * Scale), "REN"),
      RenRow(G_PT, Txt, Num(50 * Scale), "REN"),
      RenRow(G_Atlantis, Num(2021), NaN, "REN") }

CleanBalRows ==
    { BalRow(G_PT, Num(2020), Num(10 * Scale), "Primary production", "Total", U_Terajoule),
      BalRow(G_PT_padded, Num(2020), Num(20 * Scale), "Primary production", "Total", U_Terajoule),
      BalRow(G_PT, Num(2020), Num(30 * Scale), "Primary production", "Total", U_GWh),
      BalRow(G_Euro_area, Num(2020), Num(40 * Scale), "Primary production", "Total", U_Terajoule),
      BalRow(G_Portugal, Num(2021), Txt, "Imports", "Total", U_Terajoule),
      BalRow(G_PT, NaN, Num(50 * Scale), "Primary production", "Peat", U_Terajoule) }

CleanGdpRows ==
    { GdpRow(G_PT, Num(2020), Num(10 * Scale)),
      GdpRow(G_PT_padded, Num(2020), Num(20 * Scale)),
      GdpRow(G_Euro_area, Num(2020), Num(40 * Scale)),
      GdpRow(G_PT, Num(2021), Txt),
      GdpRow(G_Portugal, Txt, Num(50 * Scale)) }

MaxCleanRows == 3

CleanFiles(kind) ==
    IF kind = "ren"
    THEN {NoFile} \cup {File(RenColumns, r) : r \in BoundedSeq(CleanRenRows, MaxCleanRows)}
                  \cup {File(RenColumns \ {"freq"}, <<>>)}
    ELSE IF kind = "bal"
    THEN {NoFile} \cup {File(BalColumns, r) : r \in BoundedSeq(CleanBalRows, MaxCleanRows)}
                  \cup {File(BalColumns \ {"siec"}, <<>>)}
    ELSE {NoFile} \cup {File(c, r) : c \in {GdpKeepColumns, GdpKeepColumns \ {"unit"}},
                                      r \in BoundedSeq(CleanGdpRows, MaxCleanRows)}
                  \cup {File({"geo", "unit"}, <<>>),
                        File({"geo", "OBS_VALUE", "unit"}, <<>>)}

-----------------------------------------------------------------------------
(* DatasetMerger: merge_datasets *)

\* the value of a text column in a row the left join found no match for
NA_str == <<"NaN">>

Terajoule == <<"T","e","r","a","j","o","u","l","e">>

\* lambda x: 0 if 'Terajoule' in str(x) else 1
unit_priority(unit) == IF Contains(unit, Terajoule) THEN 0 ELSE 1

\* mutant of PrimaryFilter: the siec == 'Total' filter left out
PrimaryFilterNoSiec(bal) ==
    SelectSeq(bal, LAMBDA r : r.nrg_bal = "Primary production")

\* STEP 3 and STEP 4: nrg_bal == 'Primary production', then siec == 'Total'
PrimaryFilter(bal) ==
    SelectSeq(SelectSeq(bal, LAMBDA r : r.nrg_bal = "Primary production"),
              LAMBDA r : r.siec = "Total")

MergeKey(r) == <<r.geo, r.TIME_PERIOD>>

\* sort_values('unit_priority'): rows of priority 0, then rows of priority 1.
\* numpy sorts fewer than 17 elements by insertion, which keeps the input
\* order among rows of equal priority
SortByUnitPriority(rows) ==
    SelectSeq(rows, LAMBDA r : unit_priority(r.unit) = 0)
        \o SelectSeq(rows, LAMBDA r : unit_priority(r.unit) = 1)

\* STEP 5: one row per (geo, TIME_PERIOD), a Terajoule row preferred
DedupPrimary(rows) == DropDuplicates(SortByUnitPriority(rows), MergeKey)

\* STEP 6: bal_aggregated, the left side of the join
BalAggregated(bal) == DedupPrimary(PrimaryFilter(bal))

\* one row of the join: a left row with the fields of a matching right row
Joined(l, r) ==
    [geo |-> l.geo, TIME_PERIOD |-> l.TIME_PERIOD,
     OBS_VALUE_nrg_bal |-> l.OBS_VALUE, unit_nrg_bal |-> l.unit,
     OBS_VALUE_nrg_ind_ren |-> r.OBS_VALUE, unit_nrg_ind_ren |-> r.unit,
     nrg_bal_category |-> r.nrg_bal]

\* a left row that matched nothing: NaN in the right-hand columns
Unmatched(l) ==
    [geo |-> l.geo, TIME_PERIOD |-> l.TIME_PERIOD,
     OBS_VALUE_nrg_bal |-> l.OBS_VALUE, unit_nrg_bal |-> l.unit,
     OBS_VALUE_nrg_ind_ren |-> NaN, unit_nrg_ind_ren |-> NA_str,
     nrg_bal_category |-> NA_str]

\* the rows one left row contributes: one per matching right row, in the
\* right side's order, or one unmatched row
JoinOne(l, right) ==
    LET hits == SelectSeq(right, LAMBDA r : MergeKey(r) = MergeKey(l))
    IN  IF hits = <<>> THEN <<Unmatched(l)>>
        ELSE [i \in DOMAIN hits |-> Joined(l, hits[i])]

\* pd.merge(left, right, on=["geo", "TIME_PERIOD"], how='left')
RECURSIVE LeftMerge(_, _)
LeftMerge(left, right) ==
    IF left = <<>> THEN <<>>
    ELSE JoinOne(Head(left), right) \o LeftMerge(Tail(left), right)

\* mutant of merge_datasets: an inner join, which drops unmatched left rows
merge_datasets_inner(ren, bal) ==
    SelectSeq(LeftMerge(BalAggregated(bal), ren),
              LAMBDA r : ~IsNa(r.OBS_VALUE_nrg_ind_ren))

merge_datasets(ren, bal) == LeftMerge(BalAggregated(bal), ren)

-----------------------------------------------------------------------------
(* TimeSeriesNormalizer: clean_and_normalize_timeseries *)

\* code-point order of the characters the model uses
Alphabet == <<" ">> \o Uppers \o Lowers

Code(c) == CHOOSE i \in DOMAIN Alphabet : Alphabet[i] = c

\* a < b for two strings, as Python compares them
RECURSIVE StrLess(_, _)
StrLess(a, b) ==
    IF b = <<>> THEN FALSE
    ELSE IF a = <<>> THEN TRUE
    ELSE IF Head(a) # Head(b) THEN Code(Head(a)) < Code(Head(b))
    ELSE StrLess(Tail(a), Tail(b))

\* a < b for two year cells; a missing year sorts last
YearLess(a, b) == ~IsNa(a) /\ (IsNa(b) \/ a.n < b.n)

\* row a sorts strictly before row b under sort_values([geo, year])
GeoYearLess(a, b) ==
    \/ StrLess(a.geo, b.geo)
    \/ a.geo = b.geo /\ YearLess(a.TIME_PERIOD, b.TIME_PERIOD)

\* r placed after every row that does not sort after it
InsertRow(sorted, r) ==
    LET later == {i \in DOMAIN sorted : GeoYearLess(r, sorted[i])}
        at == IF later = {} THEN Len(sorted) + 1
              ELSE CHOOSE i \in later : \A j \in later : i <= j
    IN  SubSeq(sorted, 1, at - 1) \o <<r>> \o SubSeq(sorted, at, Len(sorted))

\* df.sort_values([geo_col, year_col]): a stable sort
RECURSIVE SortGeoYear(_)
SortGeoYear(rows) ==
    IF rows = <<>> THEN <<>>
    ELSE InsertRow(SortGeoYear(SubSeq(rows, 1, Len(rows) - 1)), rows[Len(rows)])

Max(S) == CHOOSE x \in S : \A y \in S : y <= x
Min(S) == CHOOSE x \in S : \A y \in S : x <= y

\* mutant of KnownBefore: the rows before row i that hold a value, of any
\* region
KnownBeforeAnyRegion(rows, col, i) ==
    {j \in 1..(i - 1) : ~IsNa(rows[j][col])}

\* the rows of i's region that hold a value, before and after row i
KnownBefore(rows, col, i) ==
    {j \in 1..(i - 1) : rows[j].geo = rows[i].geo /\ ~IsNa(rows[j][col])}
KnownAfter(rows, col, i) ==
    {j \in (i + 1)..Len(rows) : rows[j].geo = rows[i].geo /\ ~IsNa(rows[j][col])}

\* the position of row j among the rows of its region
PosInGroup(rows, j) == Cardinality({k \in 1..j : rows[k].geo = rows[j].geo})

\* mutant of InterpolateCell: a gap takes the last known value before it
InterpolateCellStep(rows, col, i) ==
    IF ~IsNa(rows[i][col]) THEN rows[i][col]
    ELSE IF KnownBefore(rows, col, i) # {}
    THEN rows[Max(KnownBefore(rows, col, i))][col]
    ELSE IF KnownAfter(rows, col, i) # {}
    THEN rows[Min(KnownAfter(rows, col, i))][col]
    ELSE NaN

\* mutant of InterpolateCell: limit_direction='forward', which leaves the
\* gaps before the first known value of a region unfilled
InterpolateCellForward(rows, col, i) ==
    LET before == KnownBefore(rows, col, i)
        after == KnownAfter(rows, col, i)
    IN  IF ~IsNa(rows[i][col]) THEN rows[i][col]
        ELSE IF before = {} THEN NaN
        ELSE IF after = {} THEN rows[Max(before)][col]
        ELSE LET p == Max(before)
                 q == Min(after)
                 a == rows[p][col].n
                 b == rows[q][col].n
             IN  Num(a + ((b - a) * (PosInGroup(rows, i) - PosInGroup(rows, p)))
                             \div (PosInGroup(rows, q) - PosInGroup(rows, p)))

\* Series.interpolate(method='linear', limit_direction='both') on the group
\* of row i: values are equally spaced by position; a gap at an edge takes
\* the nearest known value
InterpolateCell(rows, col, i) ==
    LET before == KnownBefore(rows, col, i)
        after == KnownAfter(rows, col, i)
    IN  IF ~IsNa(rows[i][col]) THEN rows[i][col]
        ELSE IF before = {} /\ after = {} THEN NaN
        ELSE IF before = {} THEN rows[Min(after)][col]
        ELSE IF after = {} THEN rows[Max(before)][col]
        ELSE LET p == Max(before)
                 q == Min(after)
                 a == rows[p][col].n
                 b == rows[q][col].n
             IN  Num(a + ((b - a) * (PosInGroup(rows, i) - PosInGroup(rows, p)))
                             \div (PosInGroup(rows, q) - PosInGroup(rows, p)))

\* groupby(geo)[col].ffill()
FfillCell(rows, col, i) ==
    IF ~IsNa(rows[i][col]) \/ KnownBefore(rows, col, i) = {} THEN rows[i][col]
    ELSE rows[Max(KnownBefore(rows, col, i))][col]

\* groupby(geo)[col].bfill()
BfillCell(rows, col, i) ==
    IF ~IsNa(rows[i][col]) \/ KnownAfter(rows, col, i) = {} THEN rows[i][col]
    ELSE rows[Min(KnownAfter(rows, col, i))][col]

FillCell(rows, col, i, strategy) ==
    CASE strategy = "interpolate" -> InterpolateCell(rows, col, i)
      [] strategy = "forward_fill" -> FfillCell(rows, col, i)
      [] strategy = "backward_fill" -> BfillCell(rows, col, i)
      [] strategy = "zero" -> IF IsNa(rows[i][col]) THEN Num(0) ELSE rows[i][col]
      [] OTHER -> rows[i][col]

\* the missing-value step of the chosen strategy
FillMissing(rows, col, strategy) ==
    IF strategy = "drop" THEN SelectSeq(rows, LAMBDA r : ~IsNa(r[col]))
    ELSE [i \in DOMAIN rows |-> [rows[i] EXCEPT ![col] = FillCell(rows, col, i, strategy)]]

MissingIn(rows, col) == Cardinality({i \in DOMAIN rows : IsNa(rows[i][col])})

MinYear == 1900
MaxYear == 2100

\* mutant of ValidYear: the two bounds excluded
ValidYearOpen(y) == ~IsNa(y) /\ y.n > MinYear /\ y.n < MaxYear

\* df[(df[year_col] >= 1900) & (df[year_col] <= 2100)]
ValidYear(y) == ~IsNa(y) /\ y.n >= MinYear /\ y.n <= MaxYear

clean_and_normalize_timeseries(df, value_col, missing_strategy) ==
    LET coerced == [i \in DOMAIN df |->
                       [df[i] EXCEPT !.TIME_PERIOD = ToNumeric(@),
                                     ![value_col] = ToNumeric(@)]]
        sorted == SortGeoYear(coerced)
        filled == FillMissing(sorted, value_col, missing_strategy)
        out == SelectSeq(filled, LAMBDA r : ValidYear(r.TIME_PERIOD))
        dropped == IF missing_strategy = "drop" THEN Len(sorted) - Len(filled) ELSE 0
        invalid == Len(filled) - Len(out)
    IN  [df |-> out,
         missing_values_filled |->
             IF missing_strategy = "drop" THEN 0
             ELSE IF missing_strategy = "zero" THEN MissingIn(sorted, value_col)
             ELSE MissingIn(sorted, value_col) - MissingIn(filled, value_col),
         rows_removed |->
             IF dropped # 0 THEN dropped
             ELSE IF (Len(df) - Len(out)) - invalid > 0
                  THEN (Len(df) - Len(out)) - invalid ELSE 0,
         invalid_years_removed |-> invalid]

-----------------------------------------------------------------------------
(* RegionCodeResolver: data_processing.py *)

\* the value None of a code
None == <<"None">>

\* the reference country table behind pycountry.countries.search_fuzzy:
\* lower-cased name and alpha_2 code
CountryTable ==
    { <<Lower(G_Portugal), G_PT>>,
      << <<"a","l","b","a","n","i","a">>, <<"A","L">> >> }

\* search_fuzzy(name): the matching countries; it raises LookupError when
\* there is none
search_fuzzy(name) == {e \in CountryTable : e[1] = Lower(name)}

\* the result of a call: a value, or the exception it raised
Returned(v) == [raised |-> "none", val |-> v]
Raised(e) == [raised |-> e, val |-> None]

_get_iso_code_auto(country, available) ==
    IF ~available THEN Raised("ImportError")
    ELSE LET found == search_fuzzy(Strip(country))
         IN  IF found # {} THEN Returned((CHOOSE e \in found : TRUE)[2])
             ELSE Returned(None)

get_nuts_code(country, available) ==
    IF ~available THEN Raised("ImportError")
    ELSE LET country_clean == Strip(country)
         IN  IF Len(country_clean) = 2 /\ IsUpper(country_clean)
             THEN Returned(country_clean)
             ELSE _get_iso_code_auto(country_clean, available)

\* df[geo_col].dropna().unique(): the regions in order of first appearance
UniqueGeos(df) ==
    LET firsts == {i \in DOMAIN df : \A j \in 1..(i - 1) : df[j].geo # df[i].geo}
        picked == Pick(df, firsts)
    IN  [i \in DOMAIN picked |-> picked[i].geo]

\* mutant of FillCache: the assignment to the cache moved out of the "if",
\* so that a region cached by an earlier call is overwritten with None
RECURSIVE FillCacheOverwrite(_, _, _)
FillCacheOverwrite(countries, cache, available) ==
    IF countries = <<>> THEN [raised |-> "none", cache |-> cache]
    ELSE LET country_str == Strip(Head(countries))
         IN  IF country_str = <<>>
             THEN FillCacheOverwrite(Tail(countries), cache, available)
             ELSE IF country_str \in DOMAIN cache
             THEN FillCacheOverwrite(Tail(countries),
                      [cache EXCEPT ![country_str] = None], available)
             ELSE LET r == get_nuts_code(country_str, available)
                  IN  IF r.raised # "none"
                      THEN [raised |-> r.raised, cache |-> cache]
                      ELSE FillCacheOverwrite(Tail(countries),
                               (country_str :> r.val) @@ cache, available)

\* the loop that fills add_nuts_codes._mapping_cache: one lookup for each
\* region that is not cached yet; an exception leaves the entries made so far
RECURSIVE FillCache(_, _, _)
FillCache(countries, cache, available) ==
    IF countries = <<>> THEN [raised |-> "none", cache |-> cache]
    ELSE LET country_str == Strip(Head(countries))
         IN  IF country_str = <<>> \/ country_str \in DOMAIN cache
             THEN FillCache(Tail(countries), cache, available)
             ELSE LET r == get_nuts_code(country_str, available)
                  IN  IF r.raised # "none"
                      THEN [raised |-> r.raised, cache |-> cache]
                      ELSE FillCache(Tail(countries),
                                     (country_str :> r.val) @@ cache, available)

\* mutant of map_to_nuts: a failed lookup gets a placeholder code
map_to_nuts_placeholder(geo_value, cache) ==
    IF Strip(geo_value) \in DOMAIN cache /\ cache[Strip(geo_value)] # None
    THEN cache[Strip(geo_value)] ELSE <<"X","X">>

\* map_to_nuts: _mapping_cache.get(country_str)
map_to_nuts(geo_value, cache) ==
    IF Strip(geo_value) \in DOMAIN cache THEN cache[Strip(geo_value)] ELSE None

WithCode(row, code) ==
    [f \in (DOMAIN row) \cup {"nuts_code"} |->
        IF f = "nuts_code" THEN code ELSE row[f]]

\* df['nuts_code'] = df[geo_col].apply(map_to_nuts)
ApplyCodes(df, cache) ==
    [i \in DOMAIN df |-> WithCode(df[i], map_to_nuts(df[i].geo, cache))]

add_nuts_codes(df, cache, available) ==
    LET built == FillCache(UniqueGeos(df), cache, available)
        coded == ApplyCodes(df, built.cache)
    IN  IF built.raised # "none"
        THEN [raised |-> built.raised, df |-> <<>>, cache |-> built.cache,
              nuts_codes_added |-> 0, nuts_codes_failed |-> 0]
        ELSE [raised |-> "none", df |-> coded, cache |-> built.cache,
              nuts_codes_added |->
                  Cardinality({i \in DOMAIN coded : coded[i].nuts_code # None}),
              nuts_codes_failed |->
                  Cardinality({i \in DOMAIN coded : coded[i].nuts_code = None})]

\* the strings handed to the resolver, and the trimmed names they stand for
NutsInputs == {G_PT, G_PT_padded, G_Portugal, G_Atlantis, <<>>, <<"p","t">>}
LookupNames == {Strip(c) : c \in NutsInputs}

\* get_nuts_code searches pycountry unless the input is two upper-case letters
SearchesOf(country, available) ==
    IF available /\ ~(Len(Strip(country)) = 2 /\ IsUpper(Strip(country)))
    THEN <<Strip(country)>> ELSE <<>>

\* the names searched by the loop of add_nuts_codes, in order
RECURSIVE FillCacheSearches(_, _, _)
FillCacheSearches(countries, cache, available) ==
    IF countries = <<>> THEN <<>>
    ELSE LET country_str == Strip(Head(countries))
         IN  IF country_str = <<>> \/ country_str \in DOMAIN cache
             THEN FillCacheSearches(Tail(countries), cache, available)
             ELSE LET r == get_nuts_code(country_str, available)
                  IN  IF r.raised # "none" THEN <<>>
                      ELSE SearchesOf(country_str, available) \o
                           FillCacheSearches(Tail(countries),
                               (country_str :> r.val) @@ cache, available)

\* the loop of build_nuts_mapping_from_data: a local mapping that keeps only
\* the names that resolved; searches is the names it searched, in order
RECURSIVE BuildMapping(_, _, _, _)
BuildMapping(countries, mapping, searches, available) ==
    IF countries = <<>>
    THEN [raised |-> "none", mapping |-> mapping, searches |-> searches]
    ELSE LET country_str == Strip(Head(countries))
         IN  IF country_str = <<>> \/ country_str \in DOMAIN mapping
             THEN BuildMapping(Tail(countries), mapping, searches, available)
             ELSE LET r == get_nuts_code(country_str, available)
                  IN  IF r.raised # "none"
                      THEN [raised |-> r.raised, mapping |-> mapping,
                            searches |-> searches]
                      ELSE BuildMapping(Tail(countries),
                               IF r.val # None
                               THEN (country_str :> r.val) @@ mapping
                               ELSE mapping,
                               searches \o SearchesOf(country_str, available),
                               available)

build_nuts_mapping_from_data(df, available) ==
    BuildMapping(UniqueGeos(df), <<>>, <<>>, available)

\* how many times name occurs in the sequence of searches
Occurrences(searches, name) ==
    Cardinality({i \in DOMAIN searches : searches[i] = name})

-----------------------------------------------------------------------------
(* AnalyticsEngine: analytics.py on top of data_loader.load_dataset *)

DatasetIds == {"clean_nrg_ind_ren", "clean_nrg_bal", "clean_nama_10_gdp"}

\* load_dataset: the id is looked up among cfg.get_available_datasets();
\* an id that is not there raises ValueError
load_dataset(dataset_id, available, files) ==
    IF dataset_id \notin available
    THEN [raised |-> "ValueError", df |-> <<>>]
    ELSE [raised |-> "none", df |-> files[dataset_id]]

\* df[col] = pd.to_numeric(df[col], errors='coerce') for year and value
ToNumericCols(df) ==
    [i \in DOMAIN df |-> [df[i] EXCEPT !.TIME_PERIOD = ToNumeric(@),
                                       !.OBS_VALUE = ToNumeric(@)]]

\* "if year_from: df = df[df[year_col] >= year_from]" and the same for
\* year_to; 0 stands for the None and 0 that the "if" skips, and a
\* comparison with NaN is False
FilterYears(df, year_from, year_to) ==
    SelectSeq(df, LAMBDA r :
        /\ (year_from # 0 => ~IsNa(r.TIME_PERIOD) /\ r.TIME_PERIOD.n >= year_from)
        /\ (year_to # 0 => ~IsNa(r.TIME_PERIOD) /\ r.TIME_PERIOD.n <= year_to))

\* "if country: df = df[df[geo].astype(str).str.contains(country, case=False)]"
\* for a country made of letters; <<>> stands for None and ""
FilterCountry(df, country) ==
    IF country = <<>> THEN df
    ELSE SelectSeq(df, LAMBDA r : Contains(Lower(r.geo), Lower(country)))

\* what a query does: it raises, returns {"error": ...}, or returns a result
QRaised(e) == [raised |-> e, error |-> "none", rows |-> 0]
QError(msg) == [raised |-> "none", error |-> msg, rows |-> 0]
QResult(df) == [raised |-> "none", error |-> "none", rows |-> Len(df)]

analyze_global_trends(year_from, year_to, available, files) ==
    LET l == load_dataset("clean_nrg_ind_ren", available, files)
        df == FilterYears(DropNa(ToNumericCols(l.df)), year_from, year_to)
    IN  IF l.raised # "none" THEN QRaised(l.raised)
        ELSE IF Len(df) = 0
        THEN QError("No data available for the specified period")
        ELSE QResult(df)

compare_energy_sources(year_from, year_to, country, available, files) ==
    LET l == load_dataset("clean_nrg_bal", available, files)
        df == DropNa(FilterYears(ToNumericCols(FilterCountry(l.df, country)),
                                 year_from, year_to))
    IN  IF l.raised # "none" THEN QRaised(l.raised)
        ELSE IF Len(df) = 0 THEN QError("No data available")
        ELSE QResult(df)

evaluate_regions_ranking(year_from, year_to, available, files) ==
    LET l == load_dataset("clean_nrg_ind_ren", available, files)
        df == FilterYears(DropNa(ToNumericCols(l.df)), year_from, year_to)
    IN  IF l.raised # "none" THEN QRaised(l.raised)
        ELSE IF Len(df) = 0 THEN QError("No data available")
        ELSE QResult(df)

I_gdp == <<"g","d","p">>
I_GDP == <<"G","D","P">>
I_population == <<"p","o","p","u","l","a","t","i","o","n">>
I_energy_balance == <<"e","n","e","r","g","y","_","b","a","l","a","n","c","e">>
I_other == <<"o","t","h","e","r">>

\* the try block around load_dataset("clean_nama_10_gdp"): ValueError and
\* FileNotFoundError leave gdp_data = None, anything else propagates
GdpLoad(available, files) ==
    LET g == load_dataset("clean_nama_10_gdp", available, files)
    IN  IF g.raised \in {"ValueError", "FileNotFoundError"}
        THEN [raised |-> "none", df |-> <<>>]
        ELSE g

\* one pass of the loop over the rows of renewable_trends: gdp and population
\* append a point; any other indicator reaches the elif that evaluates the
\* name energy_balance_col, which nothing defines, when the indicator is
\* "energy_balance"
IndicatorPoint(indicator) ==
    IF Lower(indicator) = I_gdp \/ Lower(indicator) = I_population THEN "none"
    ELSE IF Lower(indicator) = I_energy_balance THEN "NameError"
    ELSE "none"

correlate_with_indicators(indicator, year_from, year_to, country, available, files) ==
    LET l == load_dataset("clean_nrg_ind_ren", available, files)
        df == DropNa(FilterYears(ToNumericCols(FilterCountry(l.df, country)),
                                 year_from, year_to))
        g == IF Lower(indicator) = I_gdp THEN GdpLoad(available, files)
             ELSE [raised |-> "none", df |-> <<>>]
    IN  IF l.raised # "none" THEN QRaised(l.raised)
        ELSE IF Len(df) = 0 THEN QError("No data available")
        ELSE IF g.raised # "none" THEN QRaised(g.raised)
        ELSE IF IndicatorPoint(indicator) # "none"
        THEN QRaised(IndicatorPoint(indicator))
        ELSE QResult(df)

\* yearly_data = df.groupby(year_col)[value_col].mean(): one entry per year
YearsOf(df) == {df[i].TIME_PERIOD.n : i \in DOMAIN df}

forecast_renewable_energy(region, years_ahead, year_from, year_to, available, files) ==
    LET l == load_dataset("clean_nrg_ind_ren", available, files)
        df == FilterYears(DropNa(ToNumericCols(FilterCountry(l.df, region))),
                          year_from, year_to)
    IN  IF l.raised # "none" THEN QRaised(l.raised)
        ELSE IF Len(df) = 0 THEN QError("No data available for forecasting")
        ELSE IF Cardinality(YearsOf(df)) < 2
        THEN QError("Insufficient data for forecasting (need at least 2 years)")
        ELSE IF years_ahead <= 0 THEN QRaised("IndexError")
        ELSE QResult(df)

-----------------------------------------------------------------------------
(* The resting state of each part of the model, and the variables each
   specification leaves alone *)

NoResult == [raised |-> "not called", df |-> <<>>, rows_removed_aggregated |-> 0]

CleanIdle ==
    /\ c_kind = "ren"
    /\ c_raw = NoFile
    /\ c_out = NoResult
    /\ c_pc = "idle"

MergeIdle ==
    /\ m_ren_raw = NoFile
    /\ m_bal_raw = NoFile
    /\ m_ren = <<>>
    /\ m_bal = <<>>
    /\ m_out = <<>>
    /\ m_pc = "idle"

NoStats ==
    [ren_rows_after |-> 0, bal_rows_after |-> 0, gdp_rows_after |-> 0,
     merged_rows |-> 0, nuts_codes_added |-> 0, nuts_codes_failed |-> 0,
     rows_before_filter |-> 0, merged_rows_after_nuts_filter |-> 0,
     merged_rows_removed_no_nuts |-> 0, errors |-> 0]

\* a file of DATA_CLEAN_DIR that was never written
Unwritten == [exists |-> FALSE, rows |-> <<>>, by |-> 0]

NoDisk ==
    [clean_nrg_ind_ren |-> Unwritten, clean_nrg_bal |-> Unwritten,
     clean_nama_10_gdp |-> Unwritten, merged_dataset |-> Unwritten]

NotServed == [called |-> FALSE, by |-> 0, energy_types |-> {}]

EnvIdle ==
    /\ PYCOUNTRY_AVAILABLE = TRUE
    /\ mapping_cache = <<>>

PipeIdle ==
    /\ raw_ren = NoFile /\ raw_bal = NoFile /\ raw_gdp = NoFile
    /\ pc = "idle"
    /\ run = 0
    /\ ren_df = <<>> /\ bal_df = <<>> /\ gdp_df = <<>> /\ merged_df = <<>>
    /\ stats = NoStats
    /\ error = "none"
    /\ disk = NoDisk
    /\ failed_runs = {}
    /\ merged_history = <<>>
    /\ served = NotServed

NoFiles == [clean_nrg_ind_ren |-> <<>>, clean_nrg_bal |-> <<>>,
            clean_nama_10_gdp |-> <<>>]

NotCalled == [raised |-> "not called", error |-> "none", rows |-> 0]

QueryIdle ==
    /\ q_available = {}
    /\ q_files = NoFiles
    /\ q_call = "none"
    /\ q_out = NotCalled

MaxWorkers == 2
Workers == 1..MaxWorkers

NoData == [from |-> <<>>, named |-> <<>>]
NoLocal == [req |-> <<>>, caller |-> "none", loaded |-> <<>>, df |-> NoData,
            quiet |-> FALSE]
NoResp == [kind |-> "none", status |-> 0, req |-> <<>>, data |-> NoData,
           ids |-> <<>>, quiet |-> FALSE]

\* the None of an Optional[str] dataset id
NoId == "None"

SelIdle ==
    /\ _current_dataset_id = NoId
    /\ _current_dataset_ids = <<>>
    /\ _cleaned_dataset = NoData
    /\ load_raw_renewables_cache = NoData
    /\ w_pc = [p \in Workers |-> "idle"]
    /\ w_local = [p \in Workers |-> NoLocal]
    /\ w_resp = NoResp

NutsIdle ==
    /\ n_call = "none"
    /\ n_in = <<>>
    /\ n_out = Returned(None)
    /\ n_lookups = [name \in LookupNames |-> 0]


NoCsv == [there |-> FALSE, delimiter |-> ",", encoding |-> "ascii",
          fields |-> 1, lines |-> 0]
NotLoaded == [raised |-> "not called", columns |-> 0, rows |-> 0]

LoadIdle ==
    /\ l_file = NoCsv
    /\ l_out = NotLoaded
    /\ l_pc = "idle"

\* add_nuts_codes has no _mapping_cache attribute yet
NoCache == [there |-> FALSE, map |-> <<>>]
NoCall == [df |-> <<>>, todo |-> <<>>]

RaceIdle ==
    /\ k_cache = NoCache
    /\ k_pc = [p \in Workers |-> "idle"]
    /\ k_local = [p \in Workers |-> NoCall]
    /\ k_out = [p \in Workers |-> <<>>]

SortIdle ==
    /\ d_frame = <<>>
    /\ d_out = {}
    /\ d_pc = "idle"

NoDataset == [from |-> "none", id |-> "none", rows |-> <<>>]

JoinIdle ==
    /\ j_first = NoDataset
    /\ j_second = NoDataset
    /\ j_out = <<>>
    /\ j_pc = "idle"

AnaIdle ==
    /\ a_query = "none"
    /\ a_in = [rows |-> <<>>]
    /\ a_out = NotCalled
    /\ a_pc = "idle"

NoNormResult == [df |-> <<>>, missing_values_filled |-> 0, rows_removed |-> 0,
                 invalid_years_removed |-> 0]

NormIdle ==
    /\ t_df = <<>>
    /\ t_strategy = "interpolate"
    /\ t_out = NoNormResult
    /\ t_pc = "idle"

notClean == <<mergeVars, envVars, pipeVars, queryVars, selVars, nutsVars, normVars, anaVars, loadVars, raceVars, sortVars, joinVars>>
notMerge == <<cleanVars, envVars, pipeVars, queryVars, selVars, nutsVars, normVars, anaVars, loadVars, raceVars, sortVars, joinVars>>
notPipe == <<cleanVars, mergeVars, queryVars, selVars, nutsVars, normVars, anaVars, loadVars, raceVars, sortVars, joinVars>>
notQuery == <<cleanVars, mergeVars, envVars, pipeVars, selVars, nutsVars, normVars, anaVars, loadVars, raceVars, sortVars, joinVars>>
notSel == <<cleanVars, mergeVars, envVars, pipeVars, queryVars, nutsVars, normVars, anaVars, loadVars, raceVars, sortVars, joinVars>>
notNorm == <<cleanVars, mergeVars, envVars, pipeVars, queryVars, selVars,
            nutsVars, anaVars, loadVars, raceVars, sortVars, joinVars>>
notAna == <<cleanVars, mergeVars, envVars, pipeVars, queryVars, selVars,
           nutsVars, normVars, loadVars, raceVars, sortVars, joinVars>>
notLoad == <<cleanVars, mergeVars, envVars, pipeVars, queryVars, selVars,
            nutsVars, normVars, anaVars, raceVars, sortVars, joinVars>>
notRace == <<cleanVars, mergeVars, envVars, pipeVars, queryVars, selVars,
            nutsVars, normVars, anaVars, loadVars, sortVars, joinVars>>
notSort == <<cleanVars, mergeVars, envVars, pipeVars, queryVars, selVars,
            nutsVars, normVars, anaVars, loadVars, raceVars, joinVars>>
notJoin == <<cleanVars, mergeVars, envVars, pipeVars, queryVars, selVars,
            nutsVars, normVars, anaVars, loadVars, raceVars, sortVars>>
notNuts == <<cleanVars, mergeVars, pipeVars, queryVars, selVars, normVars, anaVars, loadVars, raceVars, sortVars, joinVars>>

-----------------------------------------------------------------------------
(* SpecClean: one call of a cleaning function on one raw file *)

InitClean ==
    /\ c_kind \in {"ren", "bal", "gdp"}
    /\ c_raw \in CleanFiles(c_kind)
    /\ c_out = NoResult
    /\ c_pc = "ready"
    /\ MergeIdle /\ EnvIdle /\ PipeIdle /\ QueryIdle /\ SelIdle /\ NutsIdle /\ NormIdle /\ AnaIdle /\ LoadIdle /\ RaceIdle /\ SortIdle /\ JoinIdle

CallCleanRen ==
    /\ c_pc = "ready" /\ c_kind = "ren"
    /\ c_out' = clean_nrg_ind_ren(c_raw)
    /\ c_pc' = "returned"
    /\ UNCHANGED <<c_kind, c_raw, notClean>>

CallCleanBal ==
    /\ c_pc = "ready" /\ c_kind = "bal"
    /\ c_out' = clean_energy_balance(c_raw)
    /\ c_pc' = "returned"
    /\ UNCHANGED <<c_kind, c_raw, notClean>>

CallCleanGdp ==
    /\ c_pc = "ready" /\ c_kind = "gdp"
    /\ c_out' = clean_gdp_dataset(c_raw)
    /\ c_pc' = "returned"
    /\ UNCHANGED <<c_kind, c_raw, notClean>>

NextClean == CallCleanRen \/ CallCleanBal \/ CallCleanGdp

SpecClean == InitClean /\ [][NextClean]_vars

Cleaned == c_pc = "returned" /\ c_out.raised = "none"

\* C3: a cleaning run returns at most as many rows as the file holds, every
\* returned row has a numeric year and a numeric value, and no returned
\* region contains, in any letter case, one of the aggregate patterns
C3_CleaningOutput ==
    Cleaned =>
        /\ Len(c_out.df) <= Len(c_raw.rows)
        /\ \A i \in DOMAIN c_out.df :
              /\ c_out.df[i].TIME_PERIOD.t = "num"
              /\ c_out.df[i].OBS_VALUE.t = "num"
              /\ \A pat \in exclude_patterns :
                    ~Contains(Lower(c_out.df[i].geo), pat)

\* a run that met text in a year, an aggregate region in capitals and a
\* duplicate, and still returned a row
C3_Witness ==
    /\ Cleaned
    /\ Len(c_out.df) >= 1
    /\ Len(c_out.df) < Len(c_raw.rows)
    /\ \E i \in DOMAIN c_raw.rows : c_raw.rows[i].geo = G_UNION
    /\ \E i \in DOMAIN c_raw.rows : c_raw.rows[i].TIME_PERIOD.t = "txt"

-----------------------------------------------------------------------------
(* SpecMerge: two raw files are cleaned, then merged *)

MergeRenRows ==
    { RenRow(G_PT, Num(2020), Num(10 * Scale), "REN"),
      RenRow(G_PT, Num(2020), Num(30 * Scale), "REN_ELC"),
      RenRow(G_PT, Num(2022), Num(20 * Scale), "REN"),
      RenRow(G_Atlantis, Num(2020), Num(40 * Scale), "REN") }

MergeBalRows ==
    { BalRow(G_PT, Num(2020), Num(10 * Scale), "Primary production", "Total", U_Terajoule),
      BalRow(G_PT, Num(2020), Num(20 * Scale), "Primary production", "Total", U_GWh),
      BalRow(G_PT, Num(2021), Num(30 * Scale), "Primary production", "Total", U_GWh),
      BalRow(G_PT, Num(2020), Num(40 * Scale), "Imports", "Total", U_Terajoule),
      BalRow(G_PT, Num(2022), Num(50 * Scale), "Primary production", "Peat", U_Terajoule),
      BalRow(G_Atlantis, Num(2020), Num(60 * Scale), "Primary production", "Total", U_GWh) }

MaxMergeRen == 2
MaxMergeBal == 3

InitMerge ==
    /\ m_ren_raw \in {File(RenColumns, r) : r \in BoundedSeq(MergeRenRows, MaxMergeRen)}
    /\ m_bal_raw \in {File(BalColumns, r) : r \in BoundedSeq(MergeBalRows, MaxMergeBal)}
    /\ m_ren = <<>>
    /\ m_bal = <<>>
    /\ m_out = <<>>
    /\ m_pc = "raw"
    /\ CleanIdle /\ EnvIdle /\ PipeIdle /\ QueryIdle /\ SelIdle /\ NutsIdle /\ NormIdle /\ AnaIdle /\ LoadIdle /\ RaceIdle /\ SortIdle /\ JoinIdle

CleanInputs ==
    /\ m_pc = "raw"
    /\ m_ren' = clean_nrg_ind_ren(m_ren_raw).df
    /\ m_bal' = clean_energy_balance(m_bal_raw).df
    /\ m_pc' = "cleaned"
    /\ UNCHANGED <<m_ren_raw, m_bal_raw, m_out, notMerge>>

CallMerge ==
    /\ m_pc = "cleaned"
    /\ m_out' = merge_datasets(m_ren, m_bal)
    /\ m_pc' = "merged"
    /\ UNCHANGED <<m_ren_raw, m_bal_raw, m_ren, m_bal, notMerge>>

NextMerge == CleanInputs \/ CallMerge

SpecMerge == InitMerge /\ [][NextMerge]_vars

KeysOf(rows) == {MergeKey(rows[i]) : i \in DOMAIN rows}

NoDuplicateKeys(rows) ==
    \A i, j \in DOMAIN rows : MergeKey(rows[i]) = MergeKey(rows[j]) => i = j

\* C1: the merged dataset has no two rows with the same (geo, TIME_PERIOD),
\* and no more rows than the filtered, deduplicated energy-balance side
C1_NoCartesianGrowth ==
    m_pc = "merged" =>
        /\ NoDuplicateKeys(m_out)
        /\ Len(m_out) <= Len(BalAggregated(m_bal))

\* C2: the keys of the merged dataset are exactly the keys of the
\* energy-balance rows that pass the Primary production / Total filter
C2_KeySetIsPrimary ==
    m_pc = "merged" => KeysOf(m_out) = KeysOf(PrimaryFilter(m_bal))

\* a merge in which one primary key has no renewable-share row, another has
\* one, and the renewable-share side holds a key the primary side lacks
C2_Witness ==
    /\ m_pc = "merged"
    /\ \E i \in DOMAIN m_out : IsNa(m_out[i].OBS_VALUE_nrg_ind_ren)
    /\ \E i \in DOMAIN m_out : ~IsNa(m_out[i].OBS_VALUE_nrg_ind_ren)
    /\ \E i \in DOMAIN m_ren : MergeKey(m_ren[i]) \notin KeysOf(m_out)
    /\ Len(PrimaryFilter(m_bal)) < Len(m_bal)

-----------------------------------------------------------------------------
(* Spec: preprocess_all_datasets, run at startup and again on request, with
   the route that reads clean_nrg_bal.csv between runs *)

PipeRenRows ==
    { RenRow(G_PT, Num(2020), Num(10 * Scale), "REN"),
      RenRow(G_Portugal, Num(2021), Num(20 * Scale), "REN"),
      RenRow(G_Atlantis, Num(2020), Num(40 * Scale), "REN") }

PipeBalRows ==
    { BalRow(G_PT, Num(2020), Num(10 * Scale), "Primary production", "Total", U_Terajoule),
      BalRow(G_PT, Num(2021), Num(20 * Scale), "Primary production", "Total", U_GWh),
      BalRow(G_Portugal, Num(2021), Num(30 * Scale), "Primary production", "Total", U_Terajoule),
      BalRow(G_Atlantis, Num(2020), Num(40 * Scale), "Primary production", "Total", U_GWh) }

PipeGdpFiles ==
    { NoFile,
      File(GdpKeepColumns, <<GdpRow(G_PT, Num(2020), Num(10 * Scale))>>),
      File({"geo", "unit"}, <<>>) }

MaxPipeRen == 1
MaxPipeBal == 2
MaxRuns == 2

Init ==
    /\ raw_ren \in {NoFile} \cup
           {File(RenColumns, r) : r \in BoundedSeq(PipeRenRows, MaxPipeRen)}
    /\ raw_bal \in {NoFile} \cup
           {File(BalColumns, r) : r \in BoundedSeq(PipeBalRows, MaxPipeBal)}
    /\ raw_gdp \in PipeGdpFiles
    /\ PYCOUNTRY_AVAILABLE \in BOOLEAN
    /\ mapping_cache = <<>>
    /\ pc = "idle"
    /\ run = 0
    /\ ren_df = <<>> /\ bal_df = <<>> /\ gdp_df = <<>> /\ merged_df = <<>>
    /\ stats = NoStats
    /\ error = "none"
    /\ disk = NoDisk
    /\ failed_runs = {}
    /\ merged_history = <<>>
    /\ served = NotServed
    /\ CleanIdle /\ MergeIdle /\ QueryIdle /\ SelIdle /\ NutsIdle /\ NormIdle /\ AnaIdle /\ LoadIdle /\ RaceIdle /\ SortIdle /\ JoinIdle

\* df.to_csv(file, index=False) by the current run
Written(rows) == [exists |-> TRUE, rows |-> rows, by |-> run]

\* the except clause: the error is recorded and re-raised to the caller
Fail(e) ==
    /\ pc' = "failed"
    /\ error' = e
    /\ stats' = [stats EXCEPT !.errors = @ + 1]
    /\ failed_runs' = failed_runs \cup {run}

\* the call of preprocess_all_datasets: stats initialised, DATA_CLEAN_DIR made
StartRun ==
    /\ pc \in {"idle", "done", "failed"}
    /\ run < MaxRuns
    /\ run' = run + 1
    /\ pc' = "clean_ren"
    /\ stats' = NoStats
    /\ error' = "none"
    /\ ren_df' = <<>> /\ bal_df' = <<>> /\ gdp_df' = <<>> /\ merged_df' = <<>>
    /\ UNCHANGED <<raw_ren, raw_bal, raw_gdp, disk, failed_runs, merged_history,
                   served, envVars, notPipe>>

\* Step 1: clean the renewable-share file and save clean_nrg_ind_ren.csv
StageCleanRen ==
    /\ pc = "clean_ren"
    /\ LET r == clean_nrg_ind_ren(raw_ren)
       IN  IF r.raised # "none"
           THEN Fail(r.raised) /\ UNCHANGED <<ren_df, disk>>
           ELSE /\ ren_df' = r.df
                /\ stats' = [stats EXCEPT !.ren_rows_after = Len(r.df)]
                /\ disk' = [disk EXCEPT !.clean_nrg_ind_ren = Written(r.df)]
                /\ pc' = "clean_bal"
                /\ UNCHANGED <<error, failed_runs>>
    /\ UNCHANGED <<raw_ren, raw_bal, raw_gdp, run, bal_df, gdp_df, merged_df,
                   merged_history, served, envVars, notPipe>>

\* Step 2: clean the energy-balance file and save clean_nrg_bal.csv
StageCleanBal ==
    /\ pc = "clean_bal"
    /\ LET r == clean_energy_balance(raw_bal)
       IN  IF r.raised # "none"
           THEN Fail(r.raised) /\ UNCHANGED <<bal_df, disk>>
           ELSE /\ bal_df' = r.df
                /\ stats' = [stats EXCEPT !.bal_rows_after = Len(r.df)]
                /\ disk' = [disk EXCEPT !.clean_nrg_bal = Written(r.df)]
                /\ pc' = "clean_gdp"
                /\ UNCHANGED <<error, failed_runs>>
    /\ UNCHANGED <<raw_ren, raw_bal, raw_gdp, run, ren_df, gdp_df, merged_df,
                   merged_history, served, envVars, notPipe>>

\* Step 3: clean the GDP file and save clean_nama_10_gdp.csv
StageCleanGdp ==
    /\ pc = "clean_gdp"
    /\ LET r == clean_gdp_dataset(raw_gdp)
       IN  IF r.raised # "none"
           THEN Fail(r.raised) /\ UNCHANGED <<gdp_df, disk>>
           ELSE /\ gdp_df' = r.df
                /\ stats' = [stats EXCEPT !.gdp_rows_after = Len(r.df)]
                /\ disk' = [disk EXCEPT !.clean_nama_10_gdp = Written(r.df)]
                /\ pc' = "merge"
                /\ UNCHANGED <<error, failed_runs>>
    /\ UNCHANGED <<raw_ren, raw_bal, raw_gdp, run, ren_df, bal_df, merged_df,
                   merged_history, served, envVars, notPipe>>

\* merged_df = merge_datasets(ren_df, bal_df)
StageMerge ==
    /\ pc = "merge"
    /\ merged_df' = merge_datasets(ren_df, bal_df)
    /\ stats' = [stats EXCEPT !.merged_rows = Len(merged_df')]
    /\ pc' = "normalize"
    /\ UNCHANGED <<raw_ren, raw_bal, raw_gdp, run, ren_df, bal_df, gdp_df, error,
                   disk, failed_runs, merged_history, served, envVars, notPipe>>

\* the loop over the OBS_VALUE_ columns of the merged frame, in column order
NormalizeMerged(df) ==
    clean_and_normalize_timeseries(
        clean_and_normalize_timeseries(df, "OBS_VALUE_nrg_bal", "interpolate").df,
        "OBS_VALUE_nrg_ind_ren", "interpolate").df

StageNormalize ==
    /\ pc = "normalize"
    /\ merged_df' = NormalizeMerged(merged_df)
    /\ pc' = "add_nuts"
    /\ UNCHANGED <<raw_ren, raw_bal, raw_gdp, run, ren_df, bal_df, gdp_df, stats,
                   error, disk, failed_runs, merged_history, served, envVars,
                   notPipe>>

\* Step 4: add_nuts_codes(merged_df, geo_col="geo", auto_build=True)
StageAddNuts ==
    /\ pc = "add_nuts"
    /\ LET r == add_nuts_codes(merged_df, mapping_cache, PYCOUNTRY_AVAILABLE)
       IN  /\ mapping_cache' = r.cache
           /\ IF r.raised # "none"
              THEN Fail(r.raised) /\ UNCHANGED merged_df
              ELSE /\ merged_df' = r.df
                   /\ stats' = [stats EXCEPT
                                   !.nuts_codes_added = r.nuts_codes_added,
                                   !.nuts_codes_failed = r.nuts_codes_failed]
                   /\ pc' = "filter_save"
                   /\ UNCHANGED <<error, failed_runs>>
    /\ UNCHANGED <<raw_ren, raw_bal, raw_gdp, run, ren_df, bal_df, gdp_df, disk,
                   merged_history, served, PYCOUNTRY_AVAILABLE, notPipe>>

\* merged_df[merged_df['nuts_code'].notna()]
WithNutsCode(df) == SelectSeq(df, LAMBDA r : r.nuts_code # None)

\* Step 5 and Step 6: keep the rows with a code, save merged_dataset.csv
StageFilterSave ==
    /\ pc = "filter_save"
    /\ merged_df' = WithNutsCode(merged_df)
    /\ stats' = [stats EXCEPT
                    !.rows_before_filter = Len(merged_df),
                    !.merged_rows_after_nuts_filter = Len(merged_df'),
                    !.merged_rows_removed_no_nuts = Len(merged_df) - Len(merged_df')]
    /\ disk' = [disk EXCEPT !.merged_dataset = Written(merged_df')]
    /\ merged_history' = Append(merged_history, merged_df')
    /\ pc' = "done"
    /\ UNCHANGED <<raw_ren, raw_bal, raw_gdp, run, ren_df, bal_df, gdp_df, error,
                   failed_runs, served, envVars, notPipe>>

\* GET /api/filters/energy-types, served once startup preprocessing has
\* returned or raised: it reads clean_nrg_bal.csv when the file exists
get_energy_types ==
    /\ pc \in {"done", "failed"}
    /\ served' =
          IF disk.clean_nrg_bal.exists
          THEN [called |-> TRUE, by |-> disk.clean_nrg_bal.by,
                energy_types |->
                    {disk.clean_nrg_bal.rows[i].siec :
                        i \in DOMAIN disk.clean_nrg_bal.rows} \ {"Total"}]
          ELSE [called |-> TRUE, by |-> 0, energy_types |-> {}]
    /\ UNCHANGED <<raw_ren, raw_bal, raw_gdp, pc, run, ren_df, bal_df, gdp_df,
                   merged_df, stats, error, disk, failed_runs, merged_history,
                   envVars, notPipe>>

Next ==
    \/ StartRun
    \/ StageCleanRen
    \/ StageCleanBal
    \/ StageCleanGdp
    \/ StageMerge
    \/ StageNormalize
    \/ StageAddNuts
    \/ StageFilterSave
    \/ get_energy_types

Spec == Init /\ [][Next]_vars

Persisted == disk.merged_dataset.rows

\* C4: when a run has completed, every row of the saved merged dataset carries
\* the code that the lookup resolves for its region and none carries a missing
\* or made-up code; nuts_codes_failed is the number of rows the filter removed,
\* and nuts_codes_added + nuts_codes_failed is the row count before the filter
C4_FailedRowsExcludedAndCounted ==
    pc = "done" =>
        /\ disk.merged_dataset.exists
        /\ \A i \in DOMAIN Persisted :
              /\ Persisted[i].nuts_code # None
              /\ Persisted[i].nuts_code =
                     get_nuts_code(Strip(Persisted[i].geo), TRUE).val
        /\ stats.nuts_codes_failed = stats.merged_rows_removed_no_nuts
        /\ stats.nuts_codes_added + stats.nuts_codes_failed =
               stats.rows_before_filter

\* a completed run that removed an unresolved row and kept a resolved one
C4_Witness ==
    /\ pc = "done"
    /\ stats.nuts_codes_failed > 0
    /\ stats.nuts_codes_added > 0
    /\ Len(Persisted) = stats.nuts_codes_added

\* C5: a failed run stops with its error recorded and raised, and no file that
\* a failed run wrote is afterwards read as data by a downstream route
C5_FailedRunOutputNeverServed ==
    /\ (pc = "failed" => error # "none" /\ run \in failed_runs)
    /\ (served.called => served.by \notin failed_runs)

\* C6: the second run of the orchestrator in the same process, on the same
\* source files, saves the same merged rows in the same order as the first
C6_SecondRunIdentical ==
    Len(merged_history) = 2 => merged_history[2] = merged_history[1]

\* two completed runs, the second one served from a cache that the first one
\* filled with a resolved and an unresolved region
C6_Witness ==
    /\ Len(merged_history) = 2
    /\ Len(merged_history[2]) > 0
    /\ \E g \in DOMAIN mapping_cache : mapping_cache[g] = None
    /\ \E g \in DOMAIN mapping_cache : mapping_cache[g] # None

-----------------------------------------------------------------------------
(* SpecQuery: one analytics query on the cleaned files that are there *)

QueryRenRows ==
    { RenRow(G_PT, Num(2020), Num(10 * Scale), "REN"),
      RenRow(G_PT, Num(2021), Num(20 * Scale), "REN"),
      RenRow(G_Portugal, Num(2020), NaN, "REN") }

QueryBalRows ==
    <<BalRow(G_PT, Num(2020), Num(10 * Scale), "Primary production", "Total",
             U_Terajoule)>>

QueryGdpRows == <<GdpRow(G_PT, Num(2020), Num(10 * Scale))>>

MaxQueryRows == 2

\* None, a year inside the data and a year after it
QueryYears == {0, 2021, 2030}
QueryCountries == {<<>>, <<"p","t">>, <<"z","z">>}
Indicators == {I_gdp, I_GDP, I_population, I_energy_balance, I_other}
DefaultYearsAhead == 5

InitQuery ==
    /\ q_available \in SUBSET DatasetIds
    /\ \E r \in BoundedSeq(QueryRenRows, MaxQueryRows) :
          q_files = [clean_nrg_ind_ren |-> r, clean_nrg_bal |-> QueryBalRows,
                     clean_nama_10_gdp |-> QueryGdpRows]
    /\ q_call = "none"
    /\ q_out = NotCalled
    /\ CleanIdle /\ MergeIdle /\ EnvIdle /\ PipeIdle /\ SelIdle /\ NutsIdle /\ NormIdle /\ AnaIdle /\ LoadIdle /\ RaceIdle /\ SortIdle /\ JoinIdle

QueryGlobalTrends ==
    /\ q_call = "none"
    /\ \E yf \in QueryYears, yt \in QueryYears :
          q_out' = analyze_global_trends(yf, yt, q_available, q_files)
    /\ q_call' = "analyze_global_trends"
    /\ UNCHANGED <<q_available, q_files, notQuery>>

QueryEnergySources ==
    /\ q_call = "none"
    /\ \E yf \in QueryYears, yt \in QueryYears, c \in QueryCountries :
          q_out' = compare_energy_sources(yf, yt, c, q_available, q_files)
    /\ q_call' = "compare_energy_sources"
    /\ UNCHANGED <<q_available, q_files, notQuery>>

QueryRegionsRanking ==
    /\ q_call = "none"
    /\ \E yf \in QueryYears, yt \in QueryYears :
          q_out' = evaluate_regions_ranking(yf, yt, q_available, q_files)
    /\ q_call' = "evaluate_regions_ranking"
    /\ UNCHANGED <<q_available, q_files, notQuery>>

QueryCorrelation ==
    /\ q_call = "none"
    /\ \E ind \in Indicators, yf \in QueryYears, yt \in QueryYears,
          c \in QueryCountries :
          q_out' = correlate_with_indicators(ind, yf, yt, c, q_available, q_files)
    /\ q_call' = "correlate_with_indicators"
    /\ UNCHANGED <<q_available, q_files, notQuery>>

QueryForecast ==
    /\ q_call = "none"
    /\ \E yf \in QueryYears, yt \in QueryYears, c \in QueryCountries :
          q_out' = forecast_renewable_energy(c, DefaultYearsAhead, yf, yt,
                                             q_available, q_files)
    /\ q_call' = "forecast_renewable_energy"
    /\ UNCHANGED <<q_available, q_files, notQuery>>

NextQuery ==
    \/ QueryGlobalTrends
    \/ QueryEnergySources
    \/ QueryRegionsRanking
    \/ QueryCorrelation
    \/ QueryForecast

SpecQuery == InitQuery /\ [][NextQuery]_vars

\* C7: whatever the year range, the country filter and the indicator, and
\* whether or not the backing dataset can be loaded, a query does not raise:
\* it returns a result or an object with an error marker
C7_NoQueryRaises ==
    q_call # "none" => q_out.raised = "none"

-----------------------------------------------------------------------------
(* SpecSel: the request handlers that share data_loader's globals, served by
   worker threads that interleave between statements.  A data frame is
   represented by the selection it was computed from. *)

\* allowed_datasets of Config.get_available_datasets, both files present
AvailableIds == {"nrg_bal", "nrg_ind_ren"}

\* the dataset_ids of a POST /api/datasets/select body
SelRequests ==
    { <<>>,
      <<"nrg_ind_ren">>,
      <<"nrg_bal", "nrg_ind_ren">>,
      <<"nrg_bal", "missing">>,
      <<"nrg_bal", "nrg_ind_ren", "nrg_bal">> }

InitSel ==
    /\ SelIdle
    /\ CleanIdle /\ MergeIdle /\ EnvIdle /\ PipeIdle /\ QueryIdle /\ NutsIdle /\ NormIdle /\ AnaIdle /\ LoadIdle /\ RaceIdle /\ SortIdle /\ JoinIdle

Selecting(p) == w_pc[p] \in {"sel_1", "sel_2", "sel_3", "sel_4"}

\* no selection call is between its first and its last statement
Quiet == \A p \in Workers : ~Selecting(p)

Respond(p, r) ==
    /\ w_resp' = r
    /\ w_pc' = [w_pc EXCEPT ![p] = "idle"]
    /\ w_local' = [w_local EXCEPT ![p] = NoLocal]

\* select_dataset up to the call of set_current_dataset(s): 400 for an empty
\* list, 404 for an id that is not available, otherwise the setter is entered
select_dataset(p) ==
    /\ w_pc[p] = "idle"
    /\ \E req \in SelRequests :
          IF req = <<>>
          THEN Respond(p, [NoResp EXCEPT !.kind = "select", !.status = 400])
          ELSE IF \E i \in DOMAIN req : req[i] \notin AvailableIds
          THEN Respond(p, [NoResp EXCEPT !.kind = "select", !.status = 404,
                                         !.req = req])
          ELSE /\ w_pc' = [w_pc EXCEPT ![p] = "sel_1"]
               /\ w_local' = [q \in Workers |->
                                 IF q = p THEN [NoLocal EXCEPT !.req = req]
                                 ELSE [w_local[q] EXCEPT !.quiet = FALSE]]
               /\ UNCHANGED w_resp
    /\ UNCHANGED <<_current_dataset_id, _current_dataset_ids, _cleaned_dataset,
                   load_raw_renewables_cache, notSel>>

\* first statement of the setter: set_current_dataset assigns
\* _current_dataset_id, set_current_datasets assigns _current_dataset_ids
SetFirst(p) ==
    /\ w_pc[p] = "sel_1"
    /\ IF Len(w_local[p].req) = 1
       THEN /\ _current_dataset_id' = w_local[p].req[1]
            /\ UNCHANGED _current_dataset_ids
       ELSE /\ _current_dataset_ids' = w_local[p].req
            /\ UNCHANGED _current_dataset_id
    /\ w_pc' = [w_pc EXCEPT ![p] = "sel_2"]
    /\ UNCHANGED <<_cleaned_dataset, load_raw_renewables_cache, w_local, w_resp,
                   notSel>>

\* second statement: set_current_dataset assigns the one-element list,
\* set_current_datasets reads the list back for its first element
SetSecond(p) ==
    /\ w_pc[p] = "sel_2"
    /\ IF Len(w_local[p].req) = 1
       THEN /\ _current_dataset_ids' = <<w_local[p].req[1]>>
            /\ UNCHANGED _current_dataset_id
       ELSE /\ _current_dataset_id' =
                   IF _current_dataset_ids # <<>> THEN _current_dataset_ids[1]
                   ELSE NoId
            /\ UNCHANGED _current_dataset_ids
    /\ w_pc' = [w_pc EXCEPT ![p] = "sel_3"]
    /\ UNCHANGED <<_cleaned_dataset, load_raw_renewables_cache, w_local, w_resp,
                   notSel>>

\* _cleaned_dataset = None
SetClearCleaned(p) ==
    /\ w_pc[p] = "sel_3"
    /\ _cleaned_dataset' = NoData
    /\ w_pc' = [w_pc EXCEPT ![p] = "sel_4"]
    /\ UNCHANGED <<_current_dataset_id, _current_dataset_ids,
                   load_raw_renewables_cache, w_local, w_resp, notSel>>

\* load_raw_renewables.cache_clear(), then the 200 response of select_dataset
SetCacheClear(p) ==
    /\ w_pc[p] = "sel_4"
    /\ load_raw_renewables_cache' = NoData
    /\ Respond(p, [NoResp EXCEPT !.kind = "select", !.status = 200,
                                 !.req = w_local[p].req])
    /\ UNCHANGED <<_current_dataset_id, _current_dataset_ids, _cleaned_dataset,
                   notSel>>

\* the lru_cache wrapper of load_raw_renewables, entered by caller: a hit
\* returns the cached frame, a miss runs the function body
EnterLoad(p, caller) ==
    IF load_raw_renewables_cache # NoData
    THEN IF caller = "load"
         THEN Respond(p, [NoResp EXCEPT !.kind = "raw", !.status = 200,
                                        !.data = load_raw_renewables_cache,
                                        !.ids = _current_dataset_ids,
                                        !.quiet = Quiet])
         ELSE /\ w_pc' = [w_pc EXCEPT ![p] = "clean_store"]
              /\ w_local' = [w_local EXCEPT ![p] =
                                [NoLocal EXCEPT !.caller = caller,
                                                !.df = load_raw_renewables_cache,
                                                !.quiet = Quiet]]
              /\ UNCHANGED w_resp
    ELSE /\ w_pc' = [w_pc EXCEPT ![p] = "load_check"]
         /\ w_local' = [w_local EXCEPT ![p] =
                           [NoLocal EXCEPT !.caller = caller, !.quiet = Quiet]]
         /\ UNCHANGED w_resp

\* get_available_countries: df = load_raw_renewables()
get_available_countries(p) ==
    /\ w_pc[p] = "idle"
    /\ EnterLoad(p, "load")
    /\ UNCHANGED <<_current_dataset_id, _current_dataset_ids, _cleaned_dataset,
                   load_raw_renewables_cache, notSel>>

\* clean_dataset: 400 without a current dataset, otherwise load_raw_renewables()
clean_dataset(p) ==
    /\ w_pc[p] = "idle"
    /\ IF _current_dataset_id = NoId
       THEN Respond(p, [NoResp EXCEPT !.kind = "clean", !.status = 400])
       ELSE EnterLoad(p, "clean")
    /\ UNCHANGED <<_current_dataset_id, _current_dataset_ids, _cleaned_dataset,
                   load_raw_renewables_cache, notSel>>

\* the ValueError of load_raw_renewables as its caller's client sees it
LoadFails(p) ==
    Respond(p, [NoResp EXCEPT
                   !.kind = IF w_local[p].caller = "load" THEN "raw" ELSE "clean",
                   !.status = 500])

\* "if not _current_dataset_ids or len(_current_dataset_ids) != 2: raise"
LoadCheck(p) ==
    /\ w_pc[p] = "load_check"
    /\ IF Len(_current_dataset_ids) # 2
       THEN LoadFails(p)
       ELSE /\ w_pc' = [w_pc EXCEPT ![p] = "load_read"]
            /\ UNCHANGED <<w_local, w_resp>>
    /\ UNCHANGED <<_current_dataset_id, _current_dataset_ids, _cleaned_dataset,
                   load_raw_renewables_cache, notSel>>

\* "if len(_current_dataset_ids) == 2: for dataset_id in _current_dataset_ids:
\* load_dataset(dataset_id)"; otherwise the raise at the end of the function
LoadRead(p) ==
    /\ w_pc[p] = "load_read"
    /\ IF Len(_current_dataset_ids) # 2
       THEN LoadFails(p)
       ELSE /\ w_pc' = [w_pc EXCEPT ![p] = "load_merge"]
            /\ w_local' = [w_local EXCEPT ![p].loaded = _current_dataset_ids]
            /\ UNCHANGED w_resp
    /\ UNCHANGED <<_current_dataset_id, _current_dataset_ids, _cleaned_dataset,
                   load_raw_renewables_cache, notSel>>

\* the columns are named and the main dataset chosen from
\* _current_dataset_ids as it is now; the merged frame is returned and the
\* lru_cache wrapper stores it
LoadMerge(p) ==
    /\ w_pc[p] = "load_merge"
    /\ LET df == [from |-> w_local[p].loaded, named |-> _current_dataset_ids]
       IN  /\ load_raw_renewables_cache' = df
           /\ IF w_local[p].caller = "load"
              THEN Respond(p, [NoResp EXCEPT !.kind = "raw", !.status = 200,
                                             !.data = df,
                                             !.ids = _current_dataset_ids,
                                             !.quiet = w_local[p].quiet /\ Quiet])
              ELSE /\ w_pc' = [w_pc EXCEPT ![p] = "clean_store"]
                   /\ w_local' = [w_local EXCEPT ![p].df = df]
                   /\ UNCHANGED w_resp
    /\ UNCHANGED <<_current_dataset_id, _current_dataset_ids, _cleaned_dataset,
                   notSel>>

\* set_cleaned_dataset(df_cleaned) and the 200 response of clean_dataset
CleanStore(p) ==
    /\ w_pc[p] = "clean_store"
    /\ _cleaned_dataset' = w_local[p].df
    /\ Respond(p, [NoResp EXCEPT !.kind = "clean", !.status = 200,
                                 !.data = w_local[p].df,
                                 !.ids = _current_dataset_ids,
                                 !.quiet = w_local[p].quiet /\ Quiet])
    /\ UNCHANGED <<_current_dataset_id, _current_dataset_ids,
                   load_raw_renewables_cache, notSel>>

\* preview_dataset without dataset_id: 400 without a current dataset,
\* otherwise the frame of get_cleaned_dataset() when there is one
preview_dataset(p) ==
    /\ w_pc[p] = "idle"
    /\ IF _current_dataset_id = NoId
       THEN Respond(p, [NoResp EXCEPT !.kind = "preview", !.status = 400])
       ELSE Respond(p, [NoResp EXCEPT !.kind = "preview", !.status = 200,
                                      !.data = _cleaned_dataset,
                                      !.ids = _current_dataset_ids,
                                      !.quiet = Quiet])
    /\ UNCHANGED <<_current_dataset_id, _current_dataset_ids, _cleaned_dataset,
                   load_raw_renewables_cache, notSel>>

NextSel ==
    \E p \in Workers :
        \/ select_dataset(p)
        \/ SetFirst(p)
        \/ SetSecond(p)
        \/ SetClearCleaned(p)
        \/ SetCacheClear(p)
        \/ get_available_countries(p)
        \/ clean_dataset(p)
        \/ LoadCheck(p)
        \/ LoadRead(p)
        \/ LoadMerge(p)
        \/ CleanStore(p)
        \/ preview_dataset(p)

SpecSel == InitSel /\ [][NextSel]_vars

\* C8: a selection request is answered 200, and so changes the selection,
\* only if it names exactly two identifiers (a request answered 400 or 404
\* returns before a setter is entered)
C8_OnlyPairsAccepted ==
    w_resp.kind = "select" /\ w_resp.status = 200 => Len(w_resp.req) = 2

\* C9: a frame handed to a reader while no selection call is under way was
\* computed from the datasets that are selected when it is handed over
C9_NoStaleDataAfterReselection ==
    (/\ w_resp.kind \in {"raw", "preview"}
     /\ w_resp.status = 200
     /\ w_resp.quiet
     /\ w_resp.data # NoData)
        => /\ Range(w_resp.data.from) = Range(w_resp.ids)
           /\ Range(w_resp.data.named) = Range(w_resp.ids)

-----------------------------------------------------------------------------
(* SpecNuts: calls of the region-code resolver in a process where pycountry
   was or was not importable *)

NutsRows == {[geo |-> g] : g \in {G_PT_padded, G_Portugal, G_Atlantis}}

MaxNutsRows == 2
MaxLookups == 2

\* the counts after the searches of one call
Counted(searches) ==
    [name \in LookupNames |-> n_lookups[name] + Occurrences(searches, name)]

RECURSIVE SumOver(_, _)
SumOver(f, S) ==
    IF S = {} THEN 0
    ELSE LET x == CHOOSE y \in S : TRUE IN f[x] + SumOver(f, S \ {x})

\* the model follows a process up to MaxLookups searches in all
Countable(searches) ==
    SumOver(n_lookups, LookupNames) + Len(searches) <= MaxLookups

InitNuts ==
    /\ PYCOUNTRY_AVAILABLE \in BOOLEAN
    /\ mapping_cache = <<>>
    /\ NutsIdle
    /\ CleanIdle /\ MergeIdle /\ PipeIdle /\ QueryIdle /\ SelIdle /\ NormIdle /\ AnaIdle /\ LoadIdle /\ RaceIdle /\ SortIdle /\ JoinIdle

CallGetNutsCode ==
    /\ \E c \in NutsInputs :
          /\ Countable(SearchesOf(c, PYCOUNTRY_AVAILABLE))
          /\ n_in' = <<c>>
          /\ n_out' = get_nuts_code(c, PYCOUNTRY_AVAILABLE)
          /\ n_lookups' = Counted(SearchesOf(c, PYCOUNTRY_AVAILABLE))
    /\ n_call' = "get_nuts_code"
    /\ UNCHANGED <<envVars, notNuts>>

CallGetIsoCodeAuto ==
    /\ \E c \in NutsInputs :
          /\ Countable(IF PYCOUNTRY_AVAILABLE THEN <<Strip(c)>> ELSE <<>>)
          /\ n_in' = <<c>>
          /\ n_out' = _get_iso_code_auto(c, PYCOUNTRY_AVAILABLE)
          /\ n_lookups' = Counted(IF PYCOUNTRY_AVAILABLE THEN <<Strip(c)>> ELSE <<>>)
    /\ n_call' = "_get_iso_code_auto"
    /\ UNCHANGED <<envVars, notNuts>>

CallAddNutsCodes ==
    /\ \E df \in BoundedSeq(NutsRows, MaxNutsRows) :
          LET r == add_nuts_codes(df, mapping_cache, PYCOUNTRY_AVAILABLE)
              searches == FillCacheSearches(UniqueGeos(df), mapping_cache,
                                            PYCOUNTRY_AVAILABLE)
          IN  /\ Countable(searches)
              /\ n_in' = UniqueGeos(df)
              /\ n_out' = [raised |-> r.raised, val |-> None]
              /\ mapping_cache' = r.cache
              /\ n_lookups' = Counted(searches)
    /\ n_call' = "add_nuts_codes"
    /\ UNCHANGED <<PYCOUNTRY_AVAILABLE, notNuts>>

CallBuildNutsMapping ==
    /\ \E df \in BoundedSeq(NutsRows, MaxNutsRows) :
          LET r == build_nuts_mapping_from_data(df, PYCOUNTRY_AVAILABLE)
          IN  /\ Countable(r.searches)
              /\ n_in' = UniqueGeos(df)
              /\ n_out' = [raised |-> r.raised, val |-> None]
              /\ n_lookups' = Counted(r.searches)
    /\ n_call' = "build_nuts_mapping_from_data"
    /\ UNCHANGED <<envVars, notNuts>>

NextNuts ==
    \/ CallGetNutsCode
    \/ CallGetIsoCodeAuto
    \/ CallAddNutsCodes
    \/ CallBuildNutsMapping

SpecNuts == InitNuts /\ [][NextNuts]_vars

\* C10: a call of get_nuts_code, or of the country lookup behind it, does not
\* raise, with or without the lookup library: it returns a two-letter code
\* or None
C10_ResolutionNeverRaises ==
    n_call \in {"get_nuts_code", "_get_iso_code_auto"} =>
        /\ n_out.raised = "none"
        /\ (n_out.val = None \/ Len(n_out.val) = 2)

\* C11: over any sequence of resolver calls in one process, pycountry is
\* searched at most once for a given trimmed region name, whether the search
\* found a country or not
C11_LookupAtMostOnce ==
    \A name \in LookupNames : n_lookups[name] <= 1

-----------------------------------------------------------------------------
(* SpecNorm: one call of clean_and_normalize_timeseries on a small table *)

NormRows ==
    {[geo |-> G_Atlantis, TIME_PERIOD |-> Num(y), OBS_VALUE |-> v] :
        y \in {2019, 2020, 2021}, v \in {Num(5 * Scale), Num(15 * Scale), NaN}}
    \cup
    {[geo |-> G_PT, TIME_PERIOD |-> Num(2020), OBS_VALUE |-> v] :
        v \in {Num(25 * Scale), NaN}}
    \cup
    {[geo |-> G_Atlantis, TIME_PERIOD |-> y, OBS_VALUE |-> Num(5 * Scale)] :
        y \in {Num(MinYear - 1), Num(MinYear), Num(MaxYear), Num(MaxYear + 1),
               NaN, Txt}}

MaxNormRows == 3

Strategies == {"interpolate", "forward_fill", "backward_fill", "zero", "drop"}

InitNorm ==
    /\ t_df \in BoundedSeq(NormRows, MaxNormRows)
    /\ t_strategy \in Strategies
    /\ t_out = NoNormResult
    /\ t_pc = "ready"
    /\ CleanIdle /\ MergeIdle /\ EnvIdle /\ PipeIdle /\ QueryIdle /\ SelIdle
    /\ NutsIdle /\ AnaIdle /\ LoadIdle /\ RaceIdle /\ SortIdle /\ JoinIdle

CallNormalize ==
    /\ t_pc = "ready"
    /\ t_out' = clean_and_normalize_timeseries(t_df, "OBS_VALUE", t_strategy)
    /\ t_pc' = "returned"
    /\ UNCHANGED <<t_df, t_strategy, notNorm>>

NextNorm == CallNormalize

SpecNorm == InitNorm /\ [][NextNorm]_vars

RowsOf(df, g) == SelectSeq(df, LAMBDA r : r.geo = g)
RegionsOf(df) == {df[i].geo : i \in DOMAIN df}

\* C12: under every strategy the rows a region gets are the rows it would
\* get if the table held that region alone, so no filled value depends on
\* another region's rows
C12_FilledFromOwnRegion ==
    t_pc = "returned" =>
        \A g \in RegionsOf(t_df) :
            RowsOf(t_out.df, g) =
                clean_and_normalize_timeseries(RowsOf(t_df, g), "OBS_VALUE",
                                               t_strategy).df

\* a fill strategy ran on two regions: one has a gap and no value of its own
\* on the side the strategy fills from, the other has a value
C12_Witness ==
    /\ t_pc = "returned"
    /\ t_strategy \in {"interpolate", "forward_fill", "backward_fill"}
    /\ \E i \in DOMAIN t_df, j \in DOMAIN t_df :
          /\ t_df[i].geo # t_df[j].geo
          /\ IsNa(t_df[i].OBS_VALUE)
          /\ ~IsNa(t_df[j].OBS_VALUE)
          /\ \A k \in DOMAIN t_df :
                t_df[k].geo = t_df[i].geo => IsNa(t_df[k].OBS_VALUE)
    /\ \E i \in DOMAIN t_out.df : IsNa(t_out.df[i].OBS_VALUE)

\* the year-ordered table the fill works on
Ordered ==
    SortGeoYear([i \in DOMAIN t_df |->
                    [t_df[i] EXCEPT !.TIME_PERIOD = ToNumeric(@)]])

\* rows i-1, i, i+1 of the ordered table are one region in consecutive
\* years, with a gap at i between two known values
GapBetweenKnown(i) ==
    /\ i - 1 \in DOMAIN Ordered /\ i + 1 \in DOMAIN Ordered
    /\ Ordered[i - 1].geo = Ordered[i].geo /\ Ordered[i + 1].geo = Ordered[i].geo
    /\ Ordered[i].TIME_PERIOD.n = Ordered[i - 1].TIME_PERIOD.n + 1
    /\ Ordered[i + 1].TIME_PERIOD.n = Ordered[i].TIME_PERIOD.n + 1
    /\ ~IsNa(Ordered[i - 1].OBS_VALUE)
    /\ IsNa(Ordered[i].OBS_VALUE)
    /\ ~IsNa(Ordered[i + 1].OBS_VALUE)

\* C13: under interpolate, a gap between two known values a and b of the
\* same region, the three rows in consecutive years, is filled with (a + b) / 2
C13_InterpolatesMidpoint ==
    t_pc = "returned" /\ t_strategy = "interpolate" =>
        \A i \in DOMAIN Ordered :
            GapBetweenKnown(i) =>
                /\ \E k \in DOMAIN t_out.df :
                      /\ t_out.df[k].geo = Ordered[i].geo
                      /\ t_out.df[k].TIME_PERIOD = Ordered[i].TIME_PERIOD
                /\ \A k \in DOMAIN t_out.df :
                      (/\ t_out.df[k].geo = Ordered[i].geo
                       /\ t_out.df[k].TIME_PERIOD = Ordered[i].TIME_PERIOD) =>
                          /\ ~IsNa(t_out.df[k].OBS_VALUE)
                          /\ 2 * t_out.df[k].OBS_VALUE.n =
                                 Ordered[i - 1].OBS_VALUE.n + Ordered[i + 1].OBS_VALUE.n

\* [5, missing, 15] over 2019..2021 was interpolated
C13_Witness ==
    /\ t_pc = "returned" /\ t_strategy = "interpolate"
    /\ \E i \in DOMAIN Ordered :
          /\ GapBetweenKnown(i)
          /\ Ordered[i - 1].OBS_VALUE = Num(5 * Scale)
          /\ Ordered[i + 1].OBS_VALUE = Num(15 * Scale)
          /\ t_out.df[i].OBS_VALUE = Num(10 * Scale)

-----------------------------------------------------------------------------
(* the GDP source in a preprocessing run *)

\* C15: with the GDP file absent and the renewable-share and energy-balance
\* files present with their columns, a preprocessing run does not fail
C15_RunCompletesWithoutGdp ==
    (/\ raw_gdp = NoFile
     /\ raw_ren # NoFile /\ RenColumns \subseteq raw_ren.cols
     /\ raw_bal # NoFile /\ BalColumns \subseteq raw_bal.cols)
    => pc # "failed"

-----------------------------------------------------------------------------
(* AnalyticsEngine: the figures of a result.  A figure is a fraction
   [num, den] with den > 0, in units of 1/Scale where it is a value. *)

RECURSIVE ProdOver(_, _)
ProdOver(f, S) ==
    IF S = {} THEN 1
    ELSE LET x == CHOOSE y \in S : TRUE IN f[x] * ProdOver(f, S \ {x})

\* sort_index(): the keys in ascending order
RECURSIVE Ascending(_)
Ascending(S) ==
    IF S = {} THEN <<>> ELSE <<Min(S)>> \o Ascending(S \ {Min(S)})

Frac(n, d) == [num |-> n, den |-> d]
FracLess(a, b) == a.num * b.den < b.num * a.den
FracEq(a, b) == a.num * b.den = b.num * a.den

RowsOfYear(df, y) == SelectSeq(df, LAMBDA r : r.TIME_PERIOD.n = y)
SumValues(df) == SumOver([i \in DOMAIN df |-> df[i].OBS_VALUE.n], DOMAIN df)

\* df.groupby(year_col)[value_col].mean().sort_index(): one point per year,
\* the mean kept as sum over count
yearly_avg(df) ==
    LET ys == Ascending(YearsOf(df))
    IN  [i \in DOMAIN ys |->
            [x |-> ys[i], num |-> SumValues(RowsOfYear(df, ys[i])),
             den |-> Len(RowsOfYear(df, ys[i]))]]

\* np.polyfit(x, y, 1) by the normal equations, over points [x, num, den].
\* The years are taken from the first one, which changes neither the slope
\* nor a prediction; every y is brought to the common denominator scale.
\* slope = slope_num / slope_den and the line through year t is
\* (sy * d + slope_num * (n * (t - x0) - sx)) / (n * d * scale)
polyfit(p) ==
    LET I == DOMAIN p
        x0 == Min({p[i].x : i \in I})
        scale == ProdOver([i \in I |-> p[i].den], I)
        w == [i \in I |-> p[i].num * (scale \div p[i].den)]
        n == Len(p)
        sx == SumOver([i \in I |-> p[i].x - x0], I)
        sy == SumOver(w, I)
        sxy == SumOver([i \in I |-> (p[i].x - x0) * w[i]], I)
        sxx == SumOver([i \in I |-> (p[i].x - x0) * (p[i].x - x0)], I)
    IN  [slope_num |-> n * sxy - sx * sy,
         slope_den |-> (n * sxx - sx * sx) * scale,
         n |-> n, x0 |-> x0, sx |-> sx, sy |-> sy,
         d |-> n * sxx - sx * sx, scale |-> scale]

\* the slope as a fraction of value units per year
Slope(fit) == Frac(fit.slope_num, fit.slope_den * Scale)

\* mutant of trend_direction: the thresholds belong to increasing and
\* decreasing
trend_direction_closed(growth_rate) ==
    IF growth_rate.num * 10 >= growth_rate.den THEN "increasing"
    ELSE IF growth_rate.num * 10 <= -growth_rate.den THEN "decreasing"
    ELSE "stable"

\* "increasing" if growth_rate > 0.1 else ("decreasing" if growth_rate < -0.1
\* else "stable")
trend_direction(growth_rate) ==
    IF growth_rate.num * 10 > growth_rate.den THEN "increasing"
    ELSE IF growth_rate.num * 10 < -growth_rate.den THEN "decreasing"
    ELSE "stable"

\* the figures analyze_global_trends returns for a frame that is not empty
global_trends(df) ==
    LET avg == yearly_avg(df)
        growth_rate == IF Len(avg) >= 2 THEN Slope(polyfit(avg)) ELSE Frac(0, 1)
    IN  [raised |-> "none", error |-> "none", rows |-> Len(df),
         overall_growth_rate |-> growth_rate,
         trend_direction |-> trend_direction(growth_rate),
         yearly_averages |-> avg]

\* np.polyval(coeffs, t): the fitted line at year t
polyval(fit, t) ==
    Frac(fit.sy * fit.d + fit.slope_num * (fit.n * (t - fit.x0) - fit.sx),
         fit.n * fit.d * fit.scale)

\* mutant of np_clip: the value passes unchanged
np_clip_none(v, lo, hi) ==
    v

\* np.clip(v, lo, hi) for whole numbers lo and hi of value units
np_clip(v, lo, hi) ==
    IF v.num < lo * Scale * v.den THEN Frac(lo * Scale, 1)
    ELSE IF v.num > hi * Scale * v.den THEN Frac(hi * Scale, 1)
    ELSE v

\* the figures forecast_renewable_energy returns for a frame of two or more
\* years and a positive years_ahead
forecast(df, years_ahead) ==
    LET yearly_data == yearly_avg(df)
        fit == polyfit(yearly_data)
        last_year == yearly_data[Len(yearly_data)].x
        forecast_years == [i \in 1..years_ahead |-> last_year + i]
        all_years == [i \in DOMAIN yearly_data |-> yearly_data[i].x]
                     \o forecast_years
    IN  [raised |-> "none", error |-> "none", rows |-> Len(df),
         historical_data |-> yearly_data,
         forecast_data |->
            [i \in DOMAIN forecast_years |->
                [year |-> forecast_years[i],
                 value |-> np_clip(polyval(fit, forecast_years[i]), 0, 100)]],
         trend_line |->
            [i \in DOMAIN all_years |->
                [year |-> all_years[i], value |-> polyval(fit, all_years[i])]],
         slope |-> Slope(fit)]

\* df.groupby([geo_col, year_col])[renewable_pct_col].mean().reset_index():
\* one row per region and year, regions and years ascending
renewable_trends(df) ==
    LET keys == {<<df[i].geo, df[i].TIME_PERIOD.n>> : i \in DOMAIN df}
        less(a, b) == StrLess(a[1], b[1]) \/ (a[1] = b[1] /\ a[2] < b[2])
        rank(k) == Cardinality({j \in keys : less(j, k)}) + 1
        key(i) == CHOOSE k \in keys : rank(k) = i
        of(k) == SelectSeq(df, LAMBDA r : r.geo = k[1] /\ r.TIME_PERIOD.n = k[2])
    IN  [i \in 1..Cardinality(keys) |->
            [geo |-> key(i)[1], year |-> key(i)[2],
             renewable_value |-> Frac(SumValues(of(key(i))), Len(of(key(i))))]]

\* gdp_data[(geo.str.strip() == region_str) & (TIME_PERIOD == gdp_year)]
gdp_match(gdp_data, region_str, gdp_year) ==
    SelectSeq(gdp_data, LAMBDA r :
        Strip(r.geo) = region_str /\ r.TIME_PERIOD.n = gdp_year)

\* base_gdp = 1000 + renewable_value * 50;
\* gdp_value = base_gdp * (1 + (year - 2010) * 0.02)
synthetic_gdp(renewable_value, year) ==
    Frac((1000 * Scale * renewable_value.den + 50 * renewable_value.num)
             * (year - 1960),
         50 * renewable_value.den)

\* base_pop = 1000000 + renewable_value * 10000;
\* pop_value = base_pop * (1 + (year - 2010) * 0.01), in thousands
synthetic_population(renewable_value, year) ==
    Frac((1000 * Scale * renewable_value.den + 10 * renewable_value.num)
             * (year - 1910),
         100 * renewable_value.den)

\* one pass of the loop body for gdp and population: the point appended for
\* a row of renewable_trends; gdp_data is <<>> when nothing was loaded, which
\* matches no row just as None skips the lookup
indicator_point(indicator, row, gdp_data) ==
    LET m == gdp_match(gdp_data, Strip(row.geo), row.year)
        real == Lower(indicator) = I_gdp /\ Len(m) > 0 /\ m[1].OBS_VALUE.n > 0
    IN  [region |-> row.geo, year |-> row.year,
         indicator_value |->
            IF real THEN Frac(m[1].OBS_VALUE.n, 1)
            ELSE IF Lower(indicator) = I_gdp
            THEN synthetic_gdp(row.renewable_value, row.year)
            ELSE synthetic_population(row.renewable_value, row.year),
         renewable_value |-> row.renewable_value]

\* the mean of fractions, on their common denominator
MeanFrac(fs) ==
    LET I == DOMAIN fs
        scale == ProdOver([i \in I |-> fs[i].den], I)
    IN  Frac(SumOver([i \in I |-> fs[i].num * (scale \div fs[i].den)], I),
             scale * Len(fs))

\* indicator_df.groupby('year')['renewable_value'].mean()
renewable_avg_by_year(points) ==
    LET ys == Ascending({points[i].year : i \in DOMAIN points})
        of(y) == SelectSeq(points, LAMBDA q : q.year = y)
        mean(y) == MeanFrac([i \in DOMAIN of(y) |-> of(y)[i].renewable_value])
    IN  [i \in DOMAIN ys |->
            [x |-> ys[i], num |-> mean(ys[i]).num, den |-> mean(ys[i]).den]]

\* the figures correlate_with_indicators returns for gdp and population: the
\* points, and the slope of the renewable trend line ([0, 0] under two years)
correlation(indicator, df, gdp_data) ==
    LET trends == renewable_trends(df)
        indicator_data ==
            [i \in DOMAIN trends |-> indicator_point(indicator, trends[i], gdp_data)]
        avg == renewable_avg_by_year(indicator_data)
    IN  [raised |-> "none", error |-> "none", rows |-> Len(df),
         indicator_data |-> indicator_data,
         renewable_trend |->
            IF Len(avg) >= 2 THEN Slope(polyfit(avg)) ELSE Frac(0, 1)]

Abs(n) == IF n < 0 THEN -n ELSE n

\* source_data_abs: the rows of one source with OBS_VALUE replaced by its
\* absolute value
source_data_abs(df, source) ==
    LET source_data == SelectSeq(df, LAMBDA r : r.siec = source)
    IN  [i \in DOMAIN source_data |->
            [source_data[i] EXCEPT !.OBS_VALUE = Num(Abs(@.n))]]

\* the growth rate of one source: which formula applies and its figures.
\* "cagr" stands for ((last / first) ** (1 / num_years) - 1) * 100, "pct"
\* carries a percentage, "None" is the undefined rate.
source_growth_rate(data_abs) ==
    LET source_by_year == yearly_avg(data_abs)
        n == Len(source_by_year)
        first_value == source_by_year[1]
        last_value == source_by_year[n]
        num_years == source_by_year[n].x - source_by_year[1].x
        fit == polyfit(source_by_year)
        avg_value == MeanFrac([i \in DOMAIN source_by_year |->
                         Frac(source_by_year[i].num, source_by_year[i].den)])
    IN  IF ~(SumValues(data_abs) > 0 /\ n >= 2) THEN [kind |-> "None"]
        ELSE IF first_value.num > 0 /\ num_years > 0
        THEN IF last_value.num > 0
             THEN [kind |-> "cagr",
                   first_value |-> Frac(first_value.num, first_value.den),
                   last_value |-> Frac(last_value.num, last_value.den),
                   num_years |-> num_years]
             ELSE [kind |-> "pct", pct |-> Frac(-100, 1)]
        ELSE IF avg_value.num > 0
        THEN [kind |-> "pct",
              pct |-> Frac(100 * fit.slope_num * avg_value.den,
                           fit.slope_den * avg_value.num)]
        ELSE [kind |-> "None"]

\* the figures compare_energy_sources returns for a frame that is not empty:
\* per source the data points, the total and the growth rate
energy_sources(df) ==
    LET sources == {df[i].siec : i \in DOMAIN df}
    IN  [raised |-> "none", error |-> "none", rows |-> Len(df),
         sources |->
            [src \in sources |->
                [data_points |-> Len(source_data_abs(df, src)),
                 total |-> SumValues(source_data_abs(df, src)),
                 growth_rate |-> source_growth_rate(source_data_abs(df, src))]]]

\* df[geo_col].unique(): the regions in order of first appearance
RECURSIVE Unique(_)
Unique(gs) ==
    IF gs = <<>> THEN <<>>
    ELSE <<Head(gs)>> \o Unique(SelectSeq(Tail(gs), LAMBDA g : g # Head(gs)))

\* df[df[geo_col] == region].sort_values(year_col)
region_data(df, region) ==
    LET rows == SelectSeq(df, LAMBDA r : r.geo = region)
        pos(i) == Cardinality({j \in DOMAIN rows :
                      \/ rows[j].TIME_PERIOD.n < rows[i].TIME_PERIOD.n
                      \/ (rows[j].TIME_PERIOD.n = rows[i].TIME_PERIOD.n /\ j < i)})
                  + 1
    IN  [i \in DOMAIN rows |-> rows[CHOOSE k \in DOMAIN rows : pos(k) = i]]

\* np.polyfit(years, values, 1)[0] over the rows of a region.  When every
\* row has the same year x the system has rank 1 and the least-squares
\* solution of least norm on the scaled columns has slope mean(values) / (2 x).
region_growth_rate(data) ==
    LET p == [i \in DOMAIN data |->
                 [x |-> data[i].TIME_PERIOD.n, num |-> data[i].OBS_VALUE.n,
                  den |-> 1]]
        fit == polyfit(p)
    IN  IF fit.d = 0 THEN Frac(fit.sy, 2 * fit.n * fit.x0 * fit.scale * Scale)
        ELSE Slope(fit)

\* the entry of one region in region_stats
region_stat(df, region) ==
    LET data == region_data(df, region)
        latest_year == Max({data[i].TIME_PERIOD.n : i \in DOMAIN data})
        latest_year_data ==
            SelectSeq(data, LAMBDA r : r.TIME_PERIOD.n = latest_year)
    IN  [region |-> region,
         current_value |-> Frac(latest_year_data[1].OBS_VALUE.n, 1),
         growth_rate |-> region_growth_rate(data),
         first_value |-> data[1].OBS_VALUE.n,
         last_value |-> data[Len(data)].OBS_VALUE.n,
         data_points |-> Len(data)]

\* the regions with two or more rows, in order of first appearance
region_stats(df) ==
    LET regions == Unique([i \in DOMAIN df |-> df[i].geo])
        ranked == SelectSeq(regions, LAMBDA g : Len(region_data(df, g)) >= 2)
    IN  [i \in DOMAIN ranked |-> region_stat(df, ranked[i])]

\* a comes before b in a view
Before(a, b, view) ==
    CASE view = "leading_by_value" -> FracLess(b.current_value, a.current_value)
      [] view = "fastest_growing" -> FracLess(b.growth_rate, a.growth_rate)
      [] view = "lagging" -> FracLess(a.current_value, b.current_value)

TopN == 10

\* sorted(region_stats, key=..., reverse=...)[:10] without current_value:
\* equal keys keep the order of region_stats
ranking_view(entries, view) ==
    LET pos(i) == Cardinality({j \in DOMAIN entries :
                      \/ Before(entries[j], entries[i], view)
                      \/ (~Before(entries[i], entries[j], view) /\ j < i)}) + 1
        sorted == [i \in DOMAIN entries |->
                      entries[CHOOSE k \in DOMAIN entries : pos(k) = i]]
        top == SubSeq(sorted, 1, Min({TopN, Len(sorted)}))
    IN  [i \in DOMAIN top |->
            [f \in DOMAIN top[i] \ {"current_value"} |-> top[i][f]]]

\* the figures evaluate_regions_ranking returns for a frame that is not empty
regions_ranking(df) ==
    [raised |-> "none", error |-> "none", rows |-> Len(df),
     leading_by_value |-> ranking_view(region_stats(df), "leading_by_value"),
     fastest_growing |-> ranking_view(region_stats(df), "fastest_growing"),
     lagging |-> ranking_view(region_stats(df), "lagging"),
     total_regions |-> Len(region_stats(df))]

-----------------------------------------------------------------------------
(* SpecAna: one analytics query on cleaned files, and the figures it returns *)

AnaAvailable == {"clean_nrg_ind_ren", "clean_nrg_bal", "clean_nama_10_gdp"}

\* yearly averages around the thresholds: 10, 10.05, 10.1, 10.2 and 12
TrendRows ==
    {RenRow(G_PT, Num(y), Num(v), "REN") :
        y \in {2019, 2020, 2021}, v \in {600, 603, 606, 612, 720}}
    \cup {RenRow(G_Atlantis, Num(2020), Num(12 * Scale), "REN")}

MaxTrendRows == 3

\* shares at the ends of the value domain
ForecastRows ==
    {RenRow(G_PT, Num(y), Num(v * Scale), "REN") :
        y \in {2019, 2020, 2021}, v \in {0, 10, 90, 100}}

MaxForecastRows == 3

CorrRenRows ==
    {RenRow(G_PT, Num(y), Num(v * Scale), "REN") :
        y \in {2020, 2021}, v \in {10, 20}}
    \cup {RenRow(G_Atlantis, Num(2020), Num(10 * Scale), "REN")}

\* GDP rows as the raw file may hold them: a positive value, zero, a
\* negative value, and a region the renewable rows do not have
CorrGdpRows ==
    {GdpRow(G_PT, Num(2020), Num(v * Scale)) : v \in {500, 0, -5}}
    \cup {GdpRow(G_Portugal, Num(2020), Num(500 * Scale))}

MaxCorrRen == 2
MaxCorrGdp == 2

S_Total == "Total"
S_Peat == "Peat and peat products"

\* balance rows of two sources: growth, decline to zero, a start from zero
\* and negative stock changes
SourceRows ==
    {BalRow(G_PT, Num(y), Num(v * Scale), "Primary production", src,
            U_Terajoule) :
        y \in {2019, 2020}, v \in {0, 10, 20, -10}, src \in {S_Total, S_Peat}}

MaxSourceRows == 2

\* shares of two countries in two categories of nrg_bal, and of an aggregate
RankRows ==
    {RenRow(G_PT, Num(y), Num(v * Scale), cat) :
        y \in {2020, 2021}, v \in {10, 20}, cat \in {"REN", "REN_ELC"}}
    \cup {RenRow(G_Atlantis, Num(y), Num(30 * Scale), "REN") : y \in {2020, 2021}}
    \cup {RenRow(G_Euro_area, Num(y), Num(15 * Scale), "REN") : y \in {2020, 2021}}

MaxRankRows == 3

CleanBal(rows) == clean_energy_balance(File(BalColumns, rows)).df

\* the files a preprocessing run leaves in DATA_CLEAN_DIR for these raw rows
CleanRen(rows) == clean_nrg_ind_ren(File(RenColumns, rows)).df
CleanGdp(rows) == clean_gdp_dataset(File(GdpKeepColumns, rows)).df

AnaFiles(ren, bal, gdp) ==
    [clean_nrg_ind_ren |-> ren, clean_nrg_bal |-> bal, clean_nama_10_gdp |-> gdp]

InitAna ==
    /\ a_query \in {"trends", "forecast", "correlation", "sources", "ranking"}
    /\ a_query = "sources" =>
          a_in \in {[rows |-> CleanBal(r)] :
                       r \in BoundedSeq(SourceRows, MaxSourceRows)}
    /\ a_query = "ranking" =>
          a_in \in {[rows |-> CleanRen(r)] :
                       r \in BoundedSeq(RankRows, MaxRankRows)}
    /\ a_query = "trends" =>
          a_in \in {[rows |-> CleanRen(r)] :
                       r \in BoundedSeq(TrendRows, MaxTrendRows)}
    /\ a_query = "forecast" =>
          a_in \in {[rows |-> CleanRen(r), years_ahead |-> k] :
                       r \in BoundedSeq(ForecastRows, MaxForecastRows),
                       k \in {1, DefaultYearsAhead}}
    /\ a_query = "correlation" =>
          a_in \in {[rows |-> CleanRen(r), gdp_there |-> t, gdp |-> CleanGdp(g),
                     indicator |-> ind] :
                       r \in BoundedSeq(CorrRenRows, MaxCorrRen),
                       t \in BOOLEAN,
                       g \in BoundedSeq(CorrGdpRows, MaxCorrGdp),
                       ind \in {I_gdp, I_GDP, I_population}}
    /\ a_out = NotCalled
    /\ a_pc = "ready"
    /\ CleanIdle /\ MergeIdle /\ EnvIdle /\ PipeIdle /\ QueryIdle /\ SelIdle
    /\ NutsIdle /\ NormIdle /\ LoadIdle /\ RaceIdle /\ SortIdle /\ JoinIdle

\* the frame a query works on once the rows are numeric and complete
Frame(rows) == DropNa(ToNumericCols(rows))

AnaReturn(r) ==
    /\ a_out' = r
    /\ a_pc' = "returned"
    /\ UNCHANGED <<a_query, a_in, notAna>>

AnaTrends ==
    /\ a_pc = "ready" /\ a_query = "trends"
    /\ LET o == analyze_global_trends(0, 0, AnaAvailable,
                                      AnaFiles(a_in.rows, <<>>, <<>>))
       IN  AnaReturn(IF o.raised = "none" /\ o.error = "none"
                     THEN global_trends(Frame(a_in.rows)) ELSE o)

AnaForecast ==
    /\ a_pc = "ready" /\ a_query = "forecast"
    /\ LET o == forecast_renewable_energy(<<>>, a_in.years_ahead, 0, 0,
                    AnaAvailable, AnaFiles(a_in.rows, <<>>, <<>>))
       IN  AnaReturn(IF o.raised = "none" /\ o.error = "none"
                     THEN forecast(Frame(a_in.rows), a_in.years_ahead) ELSE o)

AnaCorrelation ==
    /\ a_pc = "ready" /\ a_query = "correlation"
    /\ LET available == IF a_in.gdp_there THEN AnaAvailable
                        ELSE AnaAvailable \ {"clean_nama_10_gdp"}
           files == AnaFiles(a_in.rows, <<>>, a_in.gdp)
           o == correlate_with_indicators(a_in.indicator, 0, 0, <<>>,
                                          available, files)
           gdp_data == IF Lower(a_in.indicator) = I_gdp
                       THEN Frame(GdpLoad(available, files).df) ELSE <<>>
       IN  AnaReturn(IF o.raised = "none" /\ o.error = "none"
                     THEN correlation(a_in.indicator, Frame(a_in.rows), gdp_data)
                     ELSE o)

AnaSources ==
    /\ a_pc = "ready" /\ a_query = "sources"
    /\ LET o == compare_energy_sources(0, 0, <<>>, AnaAvailable,
                                       AnaFiles(<<>>, a_in.rows, <<>>))
       IN  AnaReturn(IF o.raised = "none" /\ o.error = "none"
                     THEN energy_sources(Frame(a_in.rows)) ELSE o)

AnaRanking ==
    /\ a_pc = "ready" /\ a_query = "ranking"
    /\ LET o == evaluate_regions_ranking(0, 0, AnaAvailable,
                                         AnaFiles(a_in.rows, <<>>, <<>>))
       IN  AnaReturn(IF o.raised = "none" /\ o.error = "none"
                     THEN regions_ranking(Frame(a_in.rows)) ELSE o)

NextAna ==
    \/ AnaTrends
    \/ AnaForecast
    \/ AnaCorrelation
    \/ AnaSources
    \/ AnaRanking

SpecAna == InitAna /\ [][NextAna]_vars

\* C16: the direction analyze_global_trends reports is increasing exactly
\* when the slope it reports is above 0.1, decreasing exactly when it is
\* below -0.1, and stable for every slope from -0.1 to 0.1, both included
C16_TrendThresholds ==
    (a_pc = "returned" /\ a_query = "trends" /\ a_out.error = "none"
        /\ Len(a_out.yearly_averages) >= 2) =>
        LET g == a_out.overall_growth_rate
        IN  /\ a_out.trend_direction = "increasing" <=> 10 * g.num > g.den
            /\ a_out.trend_direction = "decreasing" <=> 10 * g.num < -g.den
            /\ a_out.trend_direction = "stable" <=>
                  (-g.den <= 10 * g.num /\ 10 * g.num <= g.den)
            /\ g = Slope(polyfit(yearly_avg(Frame(a_in.rows))))

\* yearly averages 10 and 10.1 in consecutive years: the slope is exactly
\* 0.1 and the direction is stable
C16_Witness ==
    /\ a_pc = "returned" /\ a_query = "trends" /\ a_out.error = "none"
    /\ Len(a_out.yearly_averages) = 2
    /\ a_out.yearly_averages[2].x = a_out.yearly_averages[1].x + 1
    /\ FracEq(a_out.yearly_averages[1], Frac(600, 1))
    /\ FracEq(a_out.yearly_averages[2], Frac(606, 1))
    /\ FracEq(a_out.overall_growth_rate, Frac(1, 10))
    /\ a_out.trend_direction = "stable"

\* the data points a trend or regression of the query is computed from
TrendPoints == Cardinality(YearsOf(Frame(a_in.rows)))

\* C17: a query that needs a trend or regression and has fewer than 2 data
\* points for it returns an error marker
C17_InsufficientDataReported ==
    (a_pc = "returned" /\ a_query \in {"trends", "forecast", "correlation"}
        /\ TrendPoints < 2) =>
        a_out.error # "none"

\* the unclipped prediction of a forecast year, as the trend line reports it
Predicted(year) ==
    LET i == CHOOSE j \in DOMAIN a_out.trend_line :
                 a_out.trend_line[j].year = year
    IN  a_out.trend_line[i].value

\* C19: every forecast value lies in [0, 100]; a prediction above 100 is
\* reported as exactly 100, one below 0 as exactly 0, any other unchanged,
\* for each of the years_ahead years after the last historical year
C19_ForecastClipped ==
    (a_pc = "returned" /\ a_query = "forecast" /\ a_out.raised = "none"
        /\ a_out.error = "none") =>
        /\ Len(a_out.forecast_data) = a_in.years_ahead
        /\ \A i \in DOMAIN a_out.forecast_data :
              LET f == a_out.forecast_data[i]
                  p == Predicted(f.year)
                  last == a_out.historical_data[Len(a_out.historical_data)].x
              IN  /\ f.year = last + i
                  /\ ~FracLess(f.value, Frac(0, 1))
                  /\ ~FracLess(Frac(100 * Scale, 1), f.value)
                  /\ FracLess(Frac(100 * Scale, 1), p) =>
                        f.value = Frac(100 * Scale, 1)
                  /\ FracLess(p, Frac(0, 1)) => f.value = Frac(0, 1)
                  /\ (~FracLess(Frac(100 * Scale, 1), p) /\ ~FracLess(p, Frac(0, 1)))
                        => f.value = p

\* shares 90 and 100 in two consecutive years predict 110 for the next year,
\* which is reported as 100
C19_Witness ==
    /\ a_pc = "returned" /\ a_query = "forecast" /\ a_out.raised = "none"
    /\ a_out.error = "none"
    /\ \E i \in DOMAIN a_out.forecast_data :
          /\ FracEq(Predicted(a_out.forecast_data[i].year), Frac(110 * Scale, 1))
          /\ a_out.forecast_data[i].value = Frac(100 * Scale, 1)

\* the rows of the loaded GDP data for a region and year
RealGdpRows(region, year) ==
    IF a_in.gdp_there
    THEN SelectSeq(a_in.gdp, LAMBDA r : r.geo = region /\ r.TIME_PERIOD.n = year)
    ELSE <<>>

\* C14: with indicator gdp, a (region, year) pair that has a row in the real
\* GDP data gets that row's value as its indicator value, and a pair with no
\* such row gets the synthetic value
C14_RealGdpNeverReplaced ==
    (a_pc = "returned" /\ a_query = "correlation" /\ a_out.error = "none"
        /\ Lower(a_in.indicator) = I_gdp) =>
        \A i \in DOMAIN a_out.indicator_data :
            LET q == a_out.indicator_data[i]
                real == RealGdpRows(q.region, q.year)
            IN  IF Len(real) > 0
                THEN \E j \in DOMAIN real :
                        q.indicator_value = Frac(real[j].OBS_VALUE.n, 1)
                ELSE q.indicator_value = synthetic_gdp(q.renewable_value, q.year)

\* the yearly averages of absolute values of a source, oldest year first
SourceSeries(src) == yearly_avg(source_data_abs(Frame(a_in.rows), src))

\* the regression slope of a series as a percentage of its mean
RegressionPct(ys) ==
    LET fit == polyfit(ys)
        mean == MeanFrac([i \in DOMAIN ys |-> Frac(ys[i].num, ys[i].den)])
    IN  Frac(100 * fit.slope_num * mean.den, fit.slope_den * mean.num)

\* C18: the growth rate of a source is the compound annual growth rate
\* exactly when its first and last yearly averages are positive and the span
\* is above zero; for any other series of two or more years that is not all
\* zero it is the regression slope as a percentage of the mean; it is None
\* when the series is entirely non-positive
C18_GrowthRateFormula ==
    (a_pc = "returned" /\ a_query = "sources" /\ a_out.error = "none") =>
        \A src \in DOMAIN a_out.sources :
            LET ys == SourceSeries(src)
                g == a_out.sources[src].growth_rate
                cagr == /\ Len(ys) >= 2
                        /\ ys[1].num > 0 /\ ys[Len(ys)].num > 0
                        /\ ys[Len(ys)].x - ys[1].x > 0
                allzero == \A i \in DOMAIN ys : ys[i].num <= 0
            IN  /\ g.kind = "cagr" <=> cagr
                /\ (Len(ys) >= 2 /\ ~cagr /\ ~allzero) =>
                      (g.kind = "pct" /\ FracEq(g.pct, RegressionPct(ys)))
                /\ allzero => g.kind = "None"

\* the years a region has rows for in the frame of the ranking
YearsOfRegion(region) ==
    YearsOf(SelectSeq(Frame(a_in.rows), LAMBDA r : r.geo = region))

\* the latest-year value of a region, the key of two of the views
LatestValue(region) == region_stat(Frame(a_in.rows), region).current_value

Views == {"leading_by_value", "fastest_growing", "lagging"}

\* C20: every region of every view has two or more years of data and is no
\* aggregate, and each view holds at most 10 regions in the order of its
\* key: latest-year value descending, slope descending, latest-year value
\* ascending
C20_RankingViews ==
    (a_pc = "returned" /\ a_query = "ranking" /\ a_out.error = "none") =>
        \A view \in Views :
            LET v == a_out[view]
            IN  /\ Len(v) <= TopN
                /\ \A i \in DOMAIN v :
                      /\ Cardinality(YearsOfRegion(v[i].region)) >= 2
                      /\ ~IsAggregated(v[i].region)
                /\ \A i \in DOMAIN v, j \in DOMAIN v :
                      i < j =>
                        CASE view = "leading_by_value" ->
                                ~FracLess(LatestValue(v[i].region),
                                          LatestValue(v[j].region))
                          [] view = "fastest_growing" ->
                                ~FracLess(v[i].growth_rate, v[j].growth_rate)
                          [] view = "lagging" ->
                                ~FracLess(LatestValue(v[j].region),
                                          LatestValue(v[i].region))

-----------------------------------------------------------------------------
(* SpecLoad: load_dataset reading one CSV file.  A file is described by the
   delimiter its lines are written with, the number of fields of each line,
   its data lines, and its bytes: "ascii", "utf-8" (characters beyond ASCII
   encoded in UTF-8) or "latin-1" (bytes that are no valid UTF-8). *)

Delimiters == {",", ";"}
MaxFields == 3
MaxLines == 3

CsvFiles ==
    {[there |-> TRUE, delimiter |-> d, encoding |-> e, fields |-> f, lines |-> n] :
        d \in Delimiters, e \in {"ascii", "utf-8", "latin-1"},
        f \in 1..MaxFields, n \in 0..MaxLines}
    \cup {NoCsv}

\* pd.read_csv(csv_path, sep=sep, encoding=encoding): bytes that are no valid
\* UTF-8 raise UnicodeDecodeError under utf-8; a line holds one field when it
\* is split by the other delimiter
read_csv(file, sep, encoding) ==
    IF encoding = "utf-8" /\ file.encoding = "latin-1"
    THEN [raised |-> "UnicodeDecodeError", columns |-> 0, rows |-> 0]
    ELSE [raised |-> "none",
          columns |-> IF sep = file.delimiter THEN file.fields ELSE 1,
          rows |-> file.lines]

\* the nested try blocks of load_dataset: comma and utf-8, on any exception
\* semicolon and utf-8, on any exception comma and latin-1
read_with_fallback(file) ==
    LET first == read_csv(file, ",", "utf-8")
        second == read_csv(file, ";", "utf-8")
        third == read_csv(file, ",", "latin-1")
    IN  IF first.raised = "none" THEN first
        ELSE IF second.raised = "none" THEN second
        ELSE third

InitLoad ==
    /\ l_file \in CsvFiles
    /\ l_out = NotLoaded
    /\ l_pc = "ready"
    /\ CleanIdle /\ MergeIdle /\ EnvIdle /\ PipeIdle /\ QueryIdle /\ SelIdle
    /\ NutsIdle /\ NormIdle /\ AnaIdle /\ RaceIdle /\ SortIdle /\ JoinIdle

\* load_dataset(dataset_id): ValueError when no file of that id is listed
CallLoadDataset ==
    /\ l_pc = "ready"
    /\ l_out' = IF ~l_file.there
                THEN [raised |-> "ValueError", columns |-> 0, rows |-> 0]
                ELSE read_with_fallback(l_file)
    /\ l_pc' = "returned"
    /\ UNCHANGED <<l_file, notLoad>>

NextLoad == CallLoadDataset

SpecLoad == InitLoad /\ [][NextLoad]_vars

\* a delimiter and encoding combination that parses the file to more than
\* one column
Yields(file, sep, encoding) ==
    /\ read_csv(file, sep, encoding).raised = "none"
    /\ read_csv(file, sep, encoding).columns > 1

\* C21: load_dataset returns a parse of more than one column whenever some
\* combination of comma or semicolon with UTF-8 or Latin-1 yields one, and
\* fails exactly when none does; a single-column parse is never returned
C21_DelimiterEncodingFallback ==
    (l_pc = "returned" /\ l_file.there) =>
        LET some == \E sep \in Delimiters, enc \in {"utf-8", "latin-1"} :
                        Yields(l_file, sep, enc)
        IN  /\ l_out.raised = "none" => l_out.columns > 1
            /\ l_out.raised # "none" <=> ~some

-----------------------------------------------------------------------------
(* SpecSort: STEP 5 of merge_datasets on frames of up to 18 filtered rows.
   sort_values('unit_priority') sorts with the default kind, quicksort, which
   pandas documents as not stable: numpy sorts a range of at most
   SMALL_QUICKSORT + 1 elements by insertion, which keeps equal elements in
   the input order, and partitions a longer range around a pivot, which does
   not.  On a longer frame the rows of equal priority can therefore come out
   in any order, and drop_duplicates keeps whichever of them comes first. *)

U_KTOE == <<"K","T","O","E">>

SMALL_QUICKSORT == 16

\* rows of distinct keys that collide with nothing
FillerRows ==
    [i \in 1..15 |-> BalRow(G_PT, Num(1999 + i), Num(i * Scale),
                            "Primary production", "Total", U_GWh)]

CollidingRows ==
    { BalRow(G_PT, Num(2020), Num(10 * Scale), "Primary production", "Total", U_Terajoule),
      BalRow(G_PT, Num(2020), Num(20 * Scale), "Primary production", "Total", U_GWh),
      BalRow(G_PT, Num(2020), Num(30 * Scale), "Primary production", "Total", U_KTOE),
      BalRow(G_Atlantis, Num(2020), Num(40 * Scale), "Primary production", "Total", U_GWh),
      BalRow(G_Atlantis, Num(2020), Num(50 * Scale), "Primary production", "Total", U_KTOE) }

MaxColliding == 3

\* frames of 16 to 18 rows that differ in (geo, TIME_PERIOD, unit), as the
\* cleaning of the energy-balance file leaves them
SortFrames ==
    {c \o FillerRows :
        c \in {s \in BoundedSeq(CollidingRows, MaxColliding) :
                  /\ s # <<>>
                  /\ \A i, j \in DOMAIN s : s[i] = s[j] => i = j}}

\* the rows of key k that the sort can place before every other row of k:
\* those of the lowest unit_priority among them
Best(rows, k) ==
    LET same == {r \in Range(rows) : MergeKey(r) = k}
        low == IF \E r \in same : unit_priority(r.unit) = 0 THEN 0 ELSE 1
    IN  {r \in same : unit_priority(r.unit) = low}

RECURSIVE KeptSets(_, _)
KeptSets(rows, keys) ==
    IF keys = {} THEN {{}}
    ELSE LET k == CHOOSE x \in keys : TRUE
         IN  {S \cup {r} : S \in KeptSets(rows, keys \ {k}), r \in Best(rows, k)}

\* the sets of rows that sort_values('unit_priority') followed by
\* drop_duplicates(subset=dedup_cols, keep='first') can leave
DedupOutcomes(rows) ==
    IF Len(rows) <= SMALL_QUICKSORT + 1
    THEN {Range(DedupPrimary(rows))}
    ELSE KeptSets(rows, KeysOf(rows))

InitSort ==
    /\ d_frame \in SortFrames
    /\ d_out = {}
    /\ d_pc = "filtered"
    /\ CleanIdle /\ MergeIdle /\ EnvIdle /\ PipeIdle /\ QueryIdle /\ SelIdle
    /\ NutsIdle /\ NormIdle /\ AnaIdle /\ LoadIdle /\ RaceIdle /\ JoinIdle

CallDedup ==
    /\ d_pc = "filtered"
    /\ d_out' \in DedupOutcomes(d_frame)
    /\ d_pc' = "deduplicated"
    /\ UNCHANGED <<d_frame, notSort>>

NextSort == CallDedup

SpecSort == InitSort /\ [][NextSort]_vars

\* the first row of key k in the input order
FirstOfKey(rows, k) ==
    rows[CHOOSE i \in DOMAIN rows :
            /\ MergeKey(rows[i]) = k
            /\ \A j \in 1..(i - 1) : MergeKey(rows[j]) # k]

\* C22: of the filtered primary rows that share a (geo, TIME_PERIOD) key,
\* the row kept has the Terajoule unit if one of them has it, and is
\* otherwise the first of them in the input order
C22_CanonicalUnitElseFirst ==
    d_pc = "deduplicated" =>
        \A k \in KeysOf(d_frame) :
            LET same == {r \in Range(d_frame) : MergeKey(r) = k}
                kept == {r \in d_out : MergeKey(r) = k}
            IN  Cardinality(same) > 1 =>
                    /\ Cardinality(kept) = 1
                    /\ \A r \in kept :
                          IF \E x \in same : unit_priority(x.unit) = 0
                          THEN unit_priority(r.unit) = 0
                          ELSE r = FirstOfKey(d_frame, k)

-----------------------------------------------------------------------------
(* The order of the stages of preprocess_all_datasets (Spec) *)

\* add_nuts_codes has returned for the merged frame of the current run
ResolutionCompleted == pc \in {"filter_save", "done"}

OutputFiles == {"clean_nrg_ind_ren", "clean_nrg_bal", "clean_nama_10_gdp",
                "merged_dataset"}

\* C23: the stages of a run occur in the order clean, merge, normalize,
\* resolve region codes, persist: a cleaned per-source file or a merged file
\* written by the current run is on disk only once the region codes of the
\* run's merged frame have been resolved
C23_PersistAfterResolution ==
    \A f \in OutputFiles :
        (disk[f].exists /\ disk[f].by = run) => ResolutionCompleted

-----------------------------------------------------------------------------
(* SpecRace: add_nuts_codes called by request threads that share the function
   attribute _mapping_cache.  The attribute is missing when the startup run
   failed before its region-code stage.  A thread can be switched between
   any two of the steps below; each step reads or writes the attribute
   once. *)

MaxRaceRows == 2

InitRace ==
    /\ k_cache \in {NoCache, [there |-> TRUE, map |-> <<>>]}
    /\ k_pc = [p \in Workers |-> "idle"]
    /\ k_local = [p \in Workers |-> NoCall]
    /\ k_out = [p \in Workers |-> <<>>]
    /\ CleanIdle /\ MergeIdle /\ EnvIdle /\ PipeIdle /\ QueryIdle /\ SelIdle
    /\ NutsIdle /\ NormIdle /\ AnaIdle /\ LoadIdle /\ SortIdle /\ JoinIdle

\* add_nuts_codes(df, geo_col, auto_build=True) is entered
KCall(p) ==
    /\ k_pc[p] = "idle"
    /\ \E df \in BoundedSeq(NutsRows, MaxRaceRows) :
          k_local' = [k_local EXCEPT ![p] = [df |-> df, todo |-> UniqueGeos(df)]]
    /\ k_pc' = [k_pc EXCEPT ![p] = "hasattr"]
    /\ UNCHANGED <<k_cache, k_out, notRace>>

\* if not hasattr(add_nuts_codes, '_mapping_cache'):
KHasattr(p) ==
    /\ k_pc[p] = "hasattr"
    /\ k_pc' = [k_pc EXCEPT ![p] = IF k_cache.there THEN "loop" ELSE "init"]
    /\ UNCHANGED <<k_cache, k_local, k_out, notRace>>

\* add_nuts_codes._mapping_cache = {}
KInit(p) ==
    /\ k_pc[p] = "init"
    /\ k_cache' = [there |-> TRUE, map |-> <<>>]
    /\ k_pc' = [k_pc EXCEPT ![p] = "loop"]
    /\ UNCHANGED <<k_local, k_out, notRace>>

\* for country in unique_countries: the test
\* country_str and country_str not in add_nuts_codes._mapping_cache
KLoop(p) ==
    /\ k_pc[p] = "loop"
    /\ IF k_local[p].todo = <<>>
       THEN /\ k_pc' = [k_pc EXCEPT ![p] = "apply"]
            /\ UNCHANGED k_local
       ELSE LET country_str == Strip(Head(k_local[p].todo))
            IN  IF country_str # <<>> /\ country_str \notin DOMAIN k_cache.map
                THEN /\ k_pc' = [k_pc EXCEPT ![p] = "lookup"]
                     /\ UNCHANGED k_local
                ELSE /\ k_local' = [k_local EXCEPT ![p].todo = Tail(@)]
                     /\ UNCHANGED k_pc
    /\ UNCHANGED <<k_cache, k_out, notRace>>

\* nuts_code = get_nuts_code(country_str)
\* add_nuts_codes._mapping_cache[country_str] = nuts_code
KLookup(p) ==
    /\ k_pc[p] = "lookup"
    /\ LET country_str == Strip(Head(k_local[p].todo))
           nuts_code == get_nuts_code(country_str, TRUE).val
       IN  k_cache' = [k_cache EXCEPT !.map =
                          [c \in (DOMAIN @) \cup {country_str} |->
                              IF c = country_str THEN nuts_code ELSE @[c]]]
    /\ k_local' = [k_local EXCEPT ![p].todo = Tail(@)]
    /\ k_pc' = [k_pc EXCEPT ![p] = "loop"]
    /\ UNCHANGED <<k_out, notRace>>

\* df[geo_col].apply(map_to_nuts), one row: map_to_nuts reads the attribute
\* again for every row
KApplyRow(p) ==
    /\ k_pc[p] = "apply"
    /\ Len(k_out[p]) < Len(k_local[p].df)
    /\ LET row == k_local[p].df[Len(k_out[p]) + 1]
       IN  k_out' = [k_out EXCEPT ![p] =
                        Append(@, WithCode(row, map_to_nuts(row.geo, k_cache.map)))]
    /\ UNCHANGED <<k_cache, k_pc, k_local, notRace>>

\* return df, stats
KReturn(p) ==
    /\ k_pc[p] = "apply"
    /\ Len(k_out[p]) = Len(k_local[p].df)
    /\ k_pc' = [k_pc EXCEPT ![p] = "returned"]
    /\ UNCHANGED <<k_cache, k_local, k_out, notRace>>

NextRace ==
    \E p \in Workers :
        \/ KCall(p)
        \/ KHasattr(p)
        \/ KInit(p)
        \/ KLoop(p)
        \/ KLookup(p)
        \/ KApplyRow(p)
        \/ KReturn(p)

SpecRace == InitRace /\ [][NextRace]_vars

\* what add_nuts_codes returns for df when it runs alone
SequentialCodes(df) ==
    ApplyCodes(df, FillCache(UniqueGeos(df), <<>>, TRUE).cache)

\* C24: when calls of add_nuts_codes run concurrently, no entry of the shared
\* cache is lost or replaced by a step of any call, and every call that
\* returns has given each row the code its region resolves to, as a call
\* running alone does
C24_ConcurrentCallsAsSequential ==
    [][/\ k_cache.there =>
             \A c \in DOMAIN k_cache.map :
                 /\ c \in DOMAIN k_cache'.map
                 /\ k_cache'.map[c] = k_cache.map[c]
       /\ \A p \in Workers :
             k_pc'[p] = "returned" => k_out'[p] = SequentialCodes(k_local'[p].df)]_vars

\* a call that returned a row without the code its region resolves to
RowWithoutItsCode ==
    \E p \in Workers :
        /\ k_pc[p] = "returned"
        /\ k_out[p] # SequentialCodes(k_local[p].df)

-----------------------------------------------------------------------------
(* De-duplication in the cleaning functions (SpecClean) *)

\* the region, the year, the dimension columns and the unit of a row
DimensionKey(r) == Project(r, {"geo", "TIME_PERIOD", "nrg_bal", "siec", "unit"})

\* the raw rows, with the columns the file has, once the region is trimmed
\* and the year and the value are parsed
Parsed == CoerceAll(ProjectAll(c_raw.rows, c_raw.cols))

\* a raw row that the missing-value and the aggregate-region filter keep
Usable(r) == ~IsNa(r.TIME_PERIOD) /\ ~IsNa(r.OBS_VALUE) /\ ~IsAggregated(r.geo)

\* the first usable raw row with the key k
FirstUsable(k) ==
    Parsed[CHOOSE i \in DOMAIN Parsed :
              /\ Usable(Parsed[i]) /\ DimensionKey(Parsed[i]) = k
              /\ \A j \in 1..(i - 1) :
                    ~(Usable(Parsed[j]) /\ DimensionKey(Parsed[j]) = k)]

-----------------------------------------------------------------------------
(* Edge gaps and the year filter of clean_and_normalize_timeseries (SpecNorm) *)

\* the region g has a value in some row of the input table
HasKnownValue(g) ==
    \E i \in DOMAIN t_df : t_df[i].geo = g /\ ~IsNa(ToNumeric(t_df[i].OBS_VALUE))

\* C26: under interpolate the gaps at the start and at the end of a region's
\* year-ordered rows are filled too: an output row has a missing value
\* exactly when its region has no known value at all
C26_EdgeGapsFilled ==
    (t_pc = "returned" /\ t_strategy = "interpolate") =>
        \A k \in DOMAIN t_out.df :
            IsNa(t_out.df[k].OBS_VALUE) <=> ~HasKnownValue(t_out.df[k].geo)

\* a region whose first year-ordered row is a gap before a known value,
\* which the gap takes, next to a region without any value, which stays
\* unfilled
C26_Witness ==
    /\ t_pc = "returned" /\ t_strategy = "interpolate"
    /\ Len(Ordered) = 3 /\ Len(t_out.df) = 3
    /\ \E i \in 1..2 :
          /\ Ordered[i].geo = Ordered[i + 1].geo
          /\ Ordered[i].geo # Ordered[IF i = 1 THEN 3 ELSE 1].geo
          /\ IsNa(Ordered[i].OBS_VALUE)
          /\ ~IsNa(Ordered[i + 1].OBS_VALUE)
          /\ t_out.df[i].OBS_VALUE = Ordered[i + 1].OBS_VALUE
          /\ IsNa(t_out.df[IF i = 1 THEN 3 ELSE 1].OBS_VALUE)

\* a year cell that parses to a number between 1900 and 2100
PlausibleYear(y) == y.t = "num" /\ y.n >= MinYear /\ y.n <= MaxYear

\* the input rows that reach the year filter: all of them, or under the
\* drop strategy those that hold a value
ReachFilter ==
    {i \in DOMAIN t_df :
        t_strategy = "drop" => ~IsNa(ToNumeric(t_df[i].OBS_VALUE))}

\* C27: under every strategy each output row has a year in [1900, 2100],
\* both bounds allowed, a row with a missing or unparseable year is removed,
\* and invalid_years_removed is the number of rows the year filter removed
C27_YearsInRange ==
    t_pc = "returned" =>
        /\ \A k \in DOMAIN t_out.df : PlausibleYear(t_out.df[k].TIME_PERIOD)
        /\ t_out.invalid_years_removed =
               Cardinality({i \in ReachFilter : ~PlausibleYear(t_df[i].TIME_PERIOD)})
        /\ Len(t_out.df) =
               Cardinality({i \in ReachFilter : PlausibleYear(t_df[i].TIME_PERIOD)})

\* a table with a row of the year 1900 or 2100, which is kept, a row one
\* year outside the range and a row whose year is text
C27_Witness ==
    /\ t_pc = "returned"
    /\ \E i \in DOMAIN t_df : t_df[i].TIME_PERIOD.t = "txt"
    /\ \E i \in DOMAIN t_df :
          t_df[i].TIME_PERIOD \in {Num(MinYear - 1), Num(MaxYear + 1)}
    /\ \E k \in DOMAIN t_out.df :
          t_out.df[k].TIME_PERIOD \in {Num(MinYear), Num(MaxYear)}
    /\ t_out.invalid_years_removed = 2

-----------------------------------------------------------------------------
(* The selection and the cache of load_raw_renewables (SpecSel) *)

AllIdle == \A p \in Workers : w_pc[p] = "idle"

\* C28: load_raw_renewables returns a merged dataset only while exactly two
\* dataset ids are selected; with any other number selected, and no call
\* under way, nothing is cached, so that a call raises and a call after a
\* valid selection computes the merge again
C28_MergedOnlyForPairs ==
    /\ (w_resp.kind = "raw" /\ w_resp.status = 200 /\ w_resp.quiet)
           => Len(w_resp.ids) = 2
    /\ (AllIdle /\ Len(_current_dataset_ids) # 2)
           => load_raw_renewables_cache = NoData

\* get_current_dataset() is the first element of get_current_datasets(),
\* None when the list is empty
FirstOfSelection ==
    _current_dataset_id =
        IF _current_dataset_ids # <<>> THEN _current_dataset_ids[1] ELSE NoId

\* C30: whenever no selection call is under way, get_current_dataset() is
\* the first element of get_current_datasets() (None for the empty list);
\* the cleaned dataset is reset by every selection call and becomes a frame
\* again only by set_cleaned_dataset
C30_SelectionConsistent ==
    [][/\ Quiet' => FirstOfSelection'
       /\ \A p \in Workers :
             (w_pc[p] = "sel_3" /\ w_pc'[p] = "sel_4") => _cleaned_dataset' = NoData
       /\ (_cleaned_dataset' # _cleaned_dataset /\ _cleaned_dataset' # NoData)
             => \E p \in Workers : w_pc[p] = "clean_store" /\ w_pc'[p] = "idle"]_vars

-----------------------------------------------------------------------------
(* SpecJoin: one call of load_raw_renewables, which reads the global
   _current_dataset_ids when it loads, when it names the columns and when it
   chooses the main dataset, while another request thread can select again.
   The datasets are as load_dataset returns them: regions are not trimmed,
   and a year column is int64 when every cell is a number, float64 when
   numbers and missing cells mix, and text when some cell does not parse *)

JoinRenRows ==
    { [geo |-> G_PT, TIME_PERIOD |-> Num(2020), OBS_VALUE |-> Num(10 * Scale)],
      [geo |-> G_PT, TIME_PERIOD |-> Num(2020), OBS_VALUE |-> Num(20 * Scale)],
      [geo |-> G_PT_padded, TIME_PERIOD |-> Num(2020), OBS_VALUE |-> Num(30 * Scale)],
      [geo |-> G_PT, TIME_PERIOD |-> NaN, OBS_VALUE |-> Num(40 * Scale)] }

JoinBalRows ==
    { [geo |-> G_PT, TIME_PERIOD |-> Num(2020), OBS_VALUE |-> Num(50 * Scale)],
      [geo |-> G_PT, TIME_PERIOD |-> Num(2020), OBS_VALUE |-> Num(60 * Scale)],
      [geo |-> G_PT, TIME_PERIOD |-> Num(2021), OBS_VALUE |-> Num(70 * Scale)],
      [geo |-> G_Atlantis, TIME_PERIOD |-> Txt, OBS_VALUE |-> Num(80 * Scale)] }

MaxJoinRows == 2

\* the pairs a selection request can name
SelectablePairs == {<<a, b>> : a, b \in AvailableIds}

\* a pair is selected and load_raw_renewables is called with an empty cache
InitJoin ==
    /\ _current_dataset_ids \in SelectablePairs
    /\ _current_dataset_id = _current_dataset_ids[1]
    /\ _cleaned_dataset = NoData
    /\ load_raw_renewables_cache = NoData
    /\ w_pc = [p \in Workers |-> "idle"]
    /\ w_local = [p \in Workers |-> NoLocal]
    /\ w_resp = NoResp
    /\ j_first = NoDataset
    /\ j_second = NoDataset
    /\ j_out = <<>>
    /\ j_pc = "called"
    /\ CleanIdle /\ MergeIdle /\ EnvIdle /\ PipeIdle /\ QueryIdle
    /\ NutsIdle /\ NormIdle /\ AnaIdle /\ LoadIdle /\ RaceIdle /\ SortIdle

\* "for dataset_id in _current_dataset_ids: dfs.append(load_dataset(...))":
\* the two files are read, whatever rows they hold
LoadSelected ==
    /\ j_pc = "called"
    /\ \E ren \in BoundedSeq(JoinRenRows, MaxJoinRows),
          bal \in BoundedSeq(JoinBalRows, MaxJoinRows) :
          LET file == [nrg_ind_ren |-> ren, nrg_bal |-> bal]
              a == _current_dataset_ids[1]
              b == _current_dataset_ids[2]
          IN  /\ j_first' = [from |-> a, id |-> "none", rows |-> file[a]]
              /\ j_second' = [from |-> b, id |-> "none", rows |-> file[b]]
    /\ j_pc' = "loaded"
    /\ UNCHANGED <<j_out, notJoin>>

\* the dtype read_csv gives the TIME_PERIOD column
ColumnKind(rows) ==
    IF \E i \in DOMAIN rows : rows[i].TIME_PERIOD.t = "txt" THEN "object"
    ELSE IF \E i \in DOMAIN rows : IsNa(rows[i].TIME_PERIOD) THEN "float64"
    ELSE "int64"

\* astype(str) of a year cell: 2020 gives "2020" in an int64 or a text
\* column and "2020.0" in a float64 column, a missing cell gives "nan"
astype_str(c, kind) ==
    IF c.t = "txt" THEN <<"text">>
    ELSE IF c.t = "nan" THEN <<"nan">>
    ELSE IF kind = "float64" THEN <<"float", c.n>>
    ELSE <<"int", c.n>>

\* the merge keys of a row: geo and TIME_PERIOD, columns of both datasets
JoinKey(r) == <<r.geo, r.TIME_PERIOD>>

\* df.drop_duplicates(subset=merge_keys, keep='first')
DedupOnKeys(rows) == DropDuplicates(rows, JoinKey)

\* main_df[key] = main_df[key].astype(str), the dtype being that of the
\* column as it was loaded
KeysAsStr(rows, kind) ==
    [i \in DOMAIN rows |-> [rows[i] EXCEPT !.TIME_PERIOD = astype_str(@, kind)]]

\* the values of the OBS_VALUE_<id> columns of a merged row: with the same
\* id twice the column of the secondary side gets the suffix, fills the
\* main column where that is missing, and is dropped
ObsValues(main_id, l, secondary_id, value) ==
    [d \in {main_id, secondary_id} |->
        IF d = main_id
        THEN IF main_id = secondary_id /\ IsNa(l.OBS_VALUE) THEN value
             ELSE l.OBS_VALUE
        ELSE value]

\* the rows one main row contributes to pd.merge(main_df, secondary_df,
\* on=merge_keys, how='left')
JoinMain(main_id, l, secondary_id, secondary) ==
    LET hits == SelectSeq(secondary, LAMBDA r : JoinKey(r) = JoinKey(l))
    IN  IF hits = <<>>
        THEN <<[geo |-> l.geo, TIME_PERIOD |-> l.TIME_PERIOD,
                obs |-> ObsValues(main_id, l, secondary_id, NaN)]>>
        ELSE [i \in DOMAIN hits |->
                 [geo |-> l.geo, TIME_PERIOD |-> l.TIME_PERIOD,
                  obs |-> ObsValues(main_id, l, secondary_id, hits[i].OBS_VALUE)]]

RECURSIVE LeftMergeOnKeys(_, _, _, _)
LeftMergeOnKeys(main_id, main, secondary_id, secondary) ==
    IF main = <<>> THEN <<>>
    ELSE JoinMain(main_id, Head(main), secondary_id, secondary)
             \o LeftMergeOnKeys(main_id, Tail(main), secondary_id, secondary)

\* the merge of the two named frames; ids is _current_dataset_ids as the
\* choice of the main dataset reads it
MergeSelected(first, second, ids) ==
    LET d0 == DedupOnKeys(first.rows)
        d1 == DedupOnKeys(second.rows)
        k0 == KeysAsStr(d0, ColumnKind(first.rows))
        k1 == KeysAsStr(d1, ColumnKind(second.rows))
        first_is_main ==
            IF ids[1] = "nrg_ind_ren" \/ ids[2] = "nrg_ind_ren"
            THEN ids[1] = "nrg_ind_ren"
            ELSE Len(d0) <= Len(d1)
        merged == IF first_is_main
                  THEN LeftMergeOnKeys(first.id, k0, second.id, k1)
                  ELSE LeftMergeOnKeys(second.id, k1, first.id, k0)
    IN  DropDuplicates(merged, LAMBDA r : r)

\* "dataset_id = _current_dataset_ids[i]": OBS_VALUE and LAST UPDATE are
\* renamed with the ids selected now
NameColumns ==
    /\ j_pc = "loaded"
    /\ j_first' = [j_first EXCEPT !.id = _current_dataset_ids[1]]
    /\ j_second' = [j_second EXCEPT !.id = _current_dataset_ids[2]]
    /\ j_pc' = "named"
    /\ UNCHANGED <<j_out, notJoin>>

\* the rest of the body: merge keys, de-duplication, the main dataset chosen
\* by the ids selected now, the left merge, the returned frame
MergeNamed ==
    /\ j_pc = "named"
    /\ j_out' = MergeSelected(j_first, j_second, _current_dataset_ids)
    /\ j_pc' = "merged"
    /\ UNCHANGED <<j_first, j_second, notJoin>>

notJoinSel == <<cleanVars, mergeVars, envVars, pipeVars, queryVars, nutsVars,
               normVars, anaVars, loadVars, raceVars, sortVars>>

\* set_current_datasets(dataset_ids), called for a select request that
\* another thread serves while load_raw_renewables runs
Reselect ==
    /\ j_pc \in {"loaded", "named"}
    /\ \E req \in SelectablePairs :
          /\ req # _current_dataset_ids
          /\ _current_dataset_ids' = req
          /\ _current_dataset_id' = req[1]
    /\ _cleaned_dataset' = NoData
    /\ load_raw_renewables_cache' = NoData
    /\ UNCHANGED <<w_pc, w_local, w_resp, joinVars, notJoinSel>>

NextJoin == LoadSelected \/ NameColumns \/ MergeNamed \/ Reselect

SpecJoin == InitJoin /\ [][NextJoin]_vars

\* the main dataset: nrg_ind_ren when it is one of the two that were
\* loaded, in either position, otherwise the dataset with fewer rows
MainDataset ==
    IF j_first.from = "nrg_ind_ren" THEN j_first
    ELSE IF j_second.from = "nrg_ind_ren" THEN j_second
    ELSE IF Len(j_first.rows) <= Len(j_second.rows) THEN j_first
    ELSE j_second

\* the first row of each distinct (geo, TIME_PERIOD) of the main dataset
FirstPerKey ==
    {r \in Range(MainDataset.rows) :
        \E i \in DOMAIN MainDataset.rows :
            /\ MainDataset.rows[i] = r
            /\ \A j \in 1..(i - 1) : JoinKey(MainDataset.rows[j]) # JoinKey(r)}

\* C29: the merged frame has exactly one row for each distinct merge-key
\* tuple of the main dataset, carrying that key's first main row, the main
\* dataset being nrg_ind_ren when it is selected in either position and
\* otherwise the smaller one; so the merged rows are never more than the
\* de-duplicated main rows
C29_OneRowPerMainKey ==
    j_pc = "merged" =>
        /\ Len(j_out) = Cardinality({JoinKey(r) : r \in Range(MainDataset.rows)})
        /\ \A i, k \in DOMAIN j_out :
              (j_out[i].geo = j_out[k].geo
                  /\ j_out[i].TIME_PERIOD = j_out[k].TIME_PERIOD) => i = k
        /\ {<<j_out[i].geo, j_out[i].obs[MainDataset.id]>> : i \in DOMAIN j_out}
               = {<<r.geo, r.OBS_VALUE>> : r \in FirstPerKey}

====
